---------------------------- MODULE Spec2Model ----------------------------
(***************************************************************************)
(* A model of src/evaluate-options-trade.py: the admission-controlled      *)
(* gateway and correlation router (EarningsApp), the per-symbol state      *)
(* machine (SymbolProcessor) and the supervisor loop (main).  Two threads  *)
(* run the program: the callback thread (app.run, delivering the EWrapper  *)
(* events) and the tick thread (main's monitoring loop).                   *)
(*                                                                         *)
(* Granularity.  Every EarningsApp method that takes self.lock is atomic.  *)
(* An event is one step of the callback thread: the gateway's locked part  *)
(* and the handler's tests and updates.  Where a handler tests Task fields *)
(* that the tick thread writes as well, and then writes them, the handler  *)
(* stops between the test and the writes, and again where it logs between  *)
(* two writes: what is left of it are the blocks on the stack thr["cb"],   *)
(* and the tick thread can run in between.  Scheduling bound: a tick       *)
(* (p.tick(), MainTick) runs from entry to return without preemption; the  *)
(* read of is_done that follows it (MainObserve) is a step of its own.     *)
(*                                                                         *)
(* Spec is the program with one symbol; SpecGateway is the gateway alone,  *)
(* driven by any caller; SpecLive and SpecLiveService add the scheduling   *)
(* and delivery conditions under which the liveness properties are read.   *)
(* SpecDispatch splits tickPrice into its lookup under the lock and the    *)
(* handler call after it; SpecSaturated is Spec with a quote pool that the *)
(* core phase fills.  SpecPriceData, SpecSelection and SpecExpectedMove    *)
(* apply PriceData, the strike selection and the expected-move step to     *)
(* inputs drawn from bounded sets; SpecRange does so for the strike window *)
(* of the range phase.  SpecLookups is the program while only the lookups  *)
(* are answered, SpecNotices adds the service's notices, and SpecPreempted *)
(* lifts the scheduling bound: the tick thread is preempted between its    *)
(* tests and blocks like the callback thread.  SpecMatches is the program  *)
(* for a symbol that matches several contracts, SpecQueued the program     *)
(* with a quote pool that the stock quote fills, SpecBoundaries applies    *)
(* save_results to bounded inputs, and SpecNextId runs nextId and          *)
(* register_handler statement by statement on the two threads.             *)
(***************************************************************************)
EXTENDS Integers, Sequences, FiniteSets, TLC

\* ------------------------------------------------------------- bounds ----
\* Number of symbols handed to main() (one SymbolProcessor each).
NumTasks == 1
\* Request ids one Task may draw from nextId in a run of the model.
IdsPerTask == 13
\* History bars the service delivers per history request.
MaxBars == 1
\* Request errors (code 200) the service reports in a run.
MaxErrors == 1
\* Contracts the service finds for the identity lookup of a symbol.
MaxMatches == 1
\* Ticks the service sends per quote subscription.
MaxTicks == 1
\* The two pool bounds of EarningsApp.__init__, scaled down from 95 and 5 so
\* that the pools saturate with the requests of NumTasks Tasks.
MAX_CONCURRENT_MKT_DATA == 6
MAX_CONCURRENT_CONTRACTS == 1
\* A quote pool that the stock quote and the four core legs of the Tasks fill
\* (the reference bound of 95 is filled by 19 Tasks in their core phase).
MKT_DATA_OF_CORE_PHASE == 5
\* A contract pool that admits the identity lookup and the chain lookup of a
\* Task together, as the reference bound of 5 does.
CONTRACTS_OF_ONE_TASK == 2
\* The gateway driven alone: the requests submitted to it and its two pool
\* bounds.
MaxGatewayRequests == 5
GatewayMktData == 2
GatewayContracts == 1
\* Clock: time.time() is sampled at multiples of TimeStep up to Horizon, and
\* then once past the overall timeout.
TimeStep == 32
Horizon == 32

\* -------------------------------------------------- program constants ----
OVERALL_TIMEOUT == 600
PRICE_FALLBACK_DELAY == 15
CHAIN_TIMEOUT == 30
CORE_TIMEOUT == 30
RANGE_TIMEOUT == 20
PRICE_FLOOR == 40
\* Python's None in a numeric slot.
None == -1000

Tasks == 1 .. NumTasks
MaxId == IdsPerTask * NumTasks
Ids == 1 .. MaxId
NoTask == 0
Threads == {"cb"}

\* ----------------------------------------------------- service inputs ----
\* The derivative chain the service holds for every symbol, in the order in
\* which it delivers the entries; STK is the underlying's own contract.
ChainList == <<"55C", "55P", "50P", "60C", "50C", "60P">>
ChainKeys == {ChainList[i] : i \in 1 .. Len(ChainList)}
\* An entry of chains that list one right only at a strike; it arrives after
\* the entries of ChainList.
ExtraChainList == <<"45P">>
ExtraKeys == {ExtraChainList[i] : i \in 1 .. Len(ExtraChainList)}
AllKeys == ChainKeys \cup ExtraKeys \cup {"STK"}
Strike(key) ==
    CASE key \in {"45P"} -> 45
      [] key \in {"50C", "50P"} -> 50
      [] key \in {"55C", "55P"} -> 55
      [] key \in {"60C", "60P"} -> 60
      [] OTHER -> 0
Right(key) ==
    CASE key \in {"50C", "55C", "60C"} -> "C"
      [] key \in {"45P", "50P", "55P", "60P"} -> "P"
      [] OTHER -> ""
Rank(key) ==
    LET order == ChainList \o ExtraChainList IN
    IF key \in ChainKeys \cup ExtraKeys
    THEN CHOOSE i \in 1 .. Len(order) : order[i] = key
    ELSE Len(order) + 1
\* Ticks of the underlying's quote subscription: <<field, value>>.
StockTickInputs == {<<"LAST", 38>>, <<"LAST", 55>>}
\* optPrice of tickOptionComputation for an option leg.
OptionPriceInputs == {2}
\* close of a history bar.
BarCloseInputs == {39, 56}
\* errorCode of an error event: a request error and a connectivity notice.
ErrorCodeInputs == {200, 2104}
\* The codes the service sends as notices: connectivity, and "no market data
\* outside trading hours".
AdvisoryCodeInputs == {2104, 2106, 2158, 366}


\* -------------------------------------------------------------- state ----
VARIABLES
    app,    \* EarningsApp: requestId, request_handlers, the two pools
    proc,   \* the SymbolProcessor of every symbol
    svc,    \* the external service: what was forwarded to it, what it sent
    log,    \* history of the gateway's decisions (read by no operation):
            \*   under_lock: the calls out of the gateway made with self.lock held
            \*   admitted, queued: the ids in the order of admission / of queueing
            \*   pool: the pool an id was submitted to
            \*   owner: the Task that drew the id
            \*   overtook: ids admitted on submission while others waited
            \*   removed: ids that cancelMktData took out of a queue
            \*   cancelledQueued: ids that stop() cancelled while they waited
    thr,    \* the blocks the callback thread still has to run, as a stack
    main,   \* main(): position of the start loop and of the monitoring loop
    now     \* time.time()

vars == <<app, proc, svc, log, thr, main, now>>

Fields == {"LAST", "ASK", "BID", "MARK_PRICE", "DELTA", "GAMMA", "VEGA", "IV", "THETA"}
\* PriceData.__init__: no field observed.
PriceData == [f \in Fields |-> None]

\* on_sent callbacks: the Task field that receives time.time() on admission.
NoCallback == [f |-> "none", t |-> NoTask]
Callback(field, t) == [f |-> field, t |-> t]

\* The operations below are functions of the whole store
\* W = [app, proc, svc, log, now], so that a block can chain several calls.
Store == [app |-> app, proc |-> proc, svc |-> svc, log |-> log, now |-> now]

Range(s) == {s[i] : i \in 1 .. Len(s)}
QueueIds(q) == {q[i].id : i \in 1 .. Len(q)}

\* ------------------------------------------------------ self.lock ----
\* `with self.lock:` around the body of a gateway method.
Acquire(W) == [W EXCEPT !.app.lock = TRUE]
Release(W) == [W EXCEPT !.app.lock = FALSE]
\* A call that leaves the gateway (to the service, or into a Task's callback):
\* the history keeps the calls that were made with the lock held.
CallOut(W, what) ==
    [W EXCEPT !.log.under_lock = IF W.app.lock THEN @ \cup {what} ELSE @]

\* ------------------------------------------- EClient (wire to service) ----
\* super().reqMktData / super().reqContractDetails / reqHistoricalData: the
\* request reaches the service, which may from now on deliver events for it.
Forward(W, msg, reqId, contract) ==
    [CallOut(W, msg) EXCEPT !.svc.state[reqId] = "open",
                            !.svc.req[reqId] = msg,
                            !.svc.contract[reqId] = contract,
                            !.svc.forwarded[reqId] = @ + 1]

\* super().cancelMktData: the service closes the subscription.
EClient_cancelMktData(W, reqId) ==
    [CallOut(W, "cancelMktData") EXCEPT
         !.svc.state[reqId] =
             IF W.svc.req[reqId] = "reqMktData" /\ @ = "open" THEN "closed" ELSE @,
         !.svc.cancelMktData[reqId] = @ + 1]

\* EClient.cancelHistoricalData: the service closes the history request.
cancelHistoricalData(W, reqId) ==
    [CallOut(W, "cancelHistoricalData") EXCEPT
         !.svc.state[reqId] =
             IF W.svc.req[reqId] = "reqHistoricalData" /\ @ = "open"
             THEN "closed" ELSE @,
         !.svc.cancelHistoricalData[reqId] = @ + 1]

reqHistoricalData(W, reqId) == Forward(W, "reqHistoricalData", reqId, "STK")

\* ------------------------------------------------------- EarningsApp ----
\* an on_sent callback that calls nextId, a locked method of the gateway
OnSent_through_gateway(W, on_sent) ==
    IF on_sent.f = "none" THEN W
    ELSE [CallOut(CallOut(W, "on_sent"), "nextId") EXCEPT
              !.proc[on_sent.t][on_sent.f] = W.now]

\* `if on_sent: on_sent()`: the lambdas of req_option_chain / req_option_data.
OnSent(W, on_sent) ==
    IF on_sent.f = "none" THEN W
    ELSE [CallOut(W, "on_sent") EXCEPT !.proc[on_sent.t][on_sent.f] = W.now]

\* `self.active_mkt_requests.add(reqId)`, on_sent and super().reqMktData
AdmitMkt(W, req) ==
    Forward(OnSent([W EXCEPT !.app.active_mkt_requests = @ \cup {req.id},
                             !.log.admitted = Append(@, req.id)],
                   req.on_sent),
            "reqMktData", req.id, req.contract)

\* `self.active_contract_requests.add(reqId)`, on_sent and
\* super().reqContractDetails
AdmitContract(W, req) ==
    Forward(OnSent([W EXCEPT !.app.active_contract_requests = @ \cup {req.id},
                             !.log.admitted = Append(@, req.id)],
                   req.on_sent),
            "reqContractDetails", req.id, req.contract)

\* reqMktData admitting while the pool is already at its bound.
reqMktData_at_bound(W, reqId, contract, on_sent) ==
    LET req == [id |-> reqId, contract |-> contract, on_sent |-> on_sent]
        W1 == [Acquire(W) EXCEPT !.log.pool[reqId] = "mkt"]
    IN  Release(
        IF Cardinality(W.app.active_mkt_requests) <= W.app.MAX_CONCURRENT_MKT_DATA
        THEN AdmitMkt(W1, req)
        ELSE [W1 EXCEPT !.app.mkt_data_queue = Append(@, req),
                        !.log.queued = Append(@, reqId)])

\* EarningsApp.reqMktData
reqMktData(W, reqId, contract, on_sent) ==
    LET req == [id |-> reqId, contract |-> contract, on_sent |-> on_sent]
        W1 == [Acquire(W) EXCEPT !.log.pool[reqId] = "mkt"]
    IN  Release(
        IF Cardinality(W.app.active_mkt_requests) < W.app.MAX_CONCURRENT_MKT_DATA
        THEN AdmitMkt([W1 EXCEPT !.log.overtook =
                                     IF W.app.mkt_data_queue # <<>>
                                     THEN @ \cup {reqId} ELSE @],
                      req)
        ELSE [W1 EXCEPT !.app.mkt_data_queue = Append(@, req),
                        !.log.queued = Append(@, reqId)])

\* reqContractDetails running on_sent at submission, queued or not
reqContractDetails_on_submission(W, reqId, contract, on_sent) ==
    LET req == [id |-> reqId, contract |-> contract, on_sent |-> on_sent]
        W1 == [Acquire(W) EXCEPT !.log.pool[reqId] = "contract"]
    IN  Release(
        IF Cardinality(W.app.active_contract_requests) < W.app.MAX_CONCURRENT_CONTRACTS
        THEN AdmitContract(W1, req)
        ELSE OnSent([W1 EXCEPT !.app.contract_queue = Append(@, req),
                               !.log.queued = Append(@, reqId)], on_sent))

\* EarningsApp.reqContractDetails
reqContractDetails(W, reqId, contract, on_sent) ==
    LET req == [id |-> reqId, contract |-> contract, on_sent |-> on_sent]
        W1 == [Acquire(W) EXCEPT !.log.pool[reqId] = "contract"]
    IN  Release(
        IF Cardinality(W.app.active_contract_requests) < W.app.MAX_CONCURRENT_CONTRACTS
        THEN AdmitContract([W1 EXCEPT !.log.overtook =
                                          IF W.app.contract_queue # <<>>
                                          THEN @ \cup {reqId} ELSE @],
                           req)
        ELSE [W1 EXCEPT !.app.contract_queue = Append(@, req),
                        !.log.queued = Append(@, reqId)])

\* mkt_data_queue.popleft()
PopMkt(W) == [W EXCEPT !.app.mkt_data_queue = Tail(@)]
NextMkt(W) == Head(W.app.mkt_data_queue)

\* process_queue taking the newest entry (pop() in place of popleft()).
RECURSIVE process_queue_pop(_)
process_queue_pop(W) ==
    LET q == W.app.mkt_data_queue IN
    IF Cardinality(W.app.active_mkt_requests) < W.app.MAX_CONCURRENT_MKT_DATA
       /\ q # <<>>
    THEN process_queue_pop(
             AdmitMkt([W EXCEPT !.app.mkt_data_queue = SubSeq(q, 1, Len(q) - 1)],
                      q[Len(q)]))
    ELSE W

RECURSIVE process_queue(_)
process_queue(W) ==
    IF Cardinality(W.app.active_mkt_requests) < W.app.MAX_CONCURRENT_MKT_DATA
       /\ W.app.mkt_data_queue # <<>>
    THEN process_queue(AdmitMkt(PopMkt(W), NextMkt(W)))
    ELSE W

\* contract_queue.popleft()
PopContract(W) == [W EXCEPT !.app.contract_queue = Tail(@)]
NextContract(W) == Head(W.app.contract_queue)

RECURSIVE process_contract_queue(_)
process_contract_queue(W) ==
    IF Cardinality(W.app.active_contract_requests) < W.app.MAX_CONCURRENT_CONTRACTS
       /\ W.app.contract_queue # <<>>
    THEN process_contract_queue(AdmitContract(PopContract(W), NextContract(W)))
    ELSE W

\* `for i, req in enumerate(queue): if req[0] == reqId: del queue[i]; break`
RemoveQueued(q, reqId) ==
    IF reqId \in QueueIds(q)
    THEN LET i == CHOOSE j \in 1 .. Len(q) :
                      q[j].id = reqId /\ \A k \in 1 .. j - 1 : q[k].id # reqId
         IN SubSeq(q, 1, i - 1) \o SubSeq(q, i + 1, Len(q))
    ELSE q

\* cancelMktData without the process_queue() that follows the cancellation.
cancelMktData_no_promotion(W, reqId) ==
    Release(
    IF reqId \in W.app.active_mkt_requests
    THEN EClient_cancelMktData(
             [Acquire(W) EXCEPT !.app.active_mkt_requests = @ \ {reqId}], reqId)
    ELSE [Acquire(W) EXCEPT
              !.app.mkt_data_queue = RemoveQueued(@, reqId),
              !.log.removed = IF reqId \in QueueIds(W.app.mkt_data_queue)
                              THEN @ \cup {reqId} ELSE @])

\* EarningsApp.cancelMktData
cancelMktData(W, reqId) ==
    Release(
    IF reqId \in W.app.active_mkt_requests
    THEN process_queue(
             EClient_cancelMktData(
                 [Acquire(W) EXCEPT !.app.active_mkt_requests = @ \ {reqId}], reqId))
    ELSE [Acquire(W) EXCEPT
              !.app.mkt_data_queue = RemoveQueued(@, reqId),
              !.log.removed = IF reqId \in QueueIds(W.app.mkt_data_queue)
                              THEN @ \cup {reqId} ELSE @])

nextId(W) == Release([Acquire(W) EXCEPT !.app.requestId = @ + 1])

register_handler(W, reqId, handler) ==
    Release([Acquire(W) EXCEPT !.app.request_handlers[reqId] = handler])

unregister_handler(W, reqId) ==
    Release([Acquire(W) EXCEPT !.app.request_handlers[reqId] = NoTask])

\* error / contractDetailsEnd vacating the slot without process_contract_queue
ReleaseContract_no_promotion(W, reqId) ==
    [W EXCEPT !.app.active_contract_requests = @ \ {reqId}]

\* The locked head of error() and of contractDetailsEnd(): vacate the slot
\* of a contract lookup and promote.
ReleaseContract(W, reqId) ==
    Release(
    IF reqId \in W.app.active_contract_requests
    THEN process_contract_queue(
             [Acquire(W) EXCEPT !.app.active_contract_requests = @ \ {reqId}])
    ELSE Acquire(W))

\* `handler = self.request_handlers.get(reqId)`
Handler(W, reqId) ==
    IF reqId \in Ids THEN W.app.request_handlers[reqId] ELSE NoTask

\* -------------------------------------------------------- PriceData ----
\* get_instrument_value preferring the midpoint to the mark price.
get_instrument_value_midpoint_first(data) ==
    IF data["BID"] # None /\ data["ASK"] # None
    THEN (data["BID"] + data["ASK"]) \div 2
    ELSE IF data["MARK_PRICE"] # None THEN data["MARK_PRICE"]
    ELSE IF data["LAST"] # None THEN data["LAST"]
    ELSE None

\* PriceData.get_instrument_value (prices are integers; the inputs make the
\* midpoint exact).
get_instrument_value(data) ==
    IF data["MARK_PRICE"] # None THEN data["MARK_PRICE"]
    ELSE IF data["BID"] # None /\ data["ASK"] # None
         THEN (data["BID"] + data["ASK"]) \div 2
    ELSE IF data["LAST"] # None THEN data["LAST"]
    ELSE None

\* PriceData.update
update(data, value, field_name) == [data EXCEPT ![field_name] = value]

\* PriceData.stock_fields / PriceData.option_fields
stock_fields == <<"LAST", "ASK", "BID">>
option_fields == <<"LAST", "ASK", "BID", "DELTA", "GAMMA", "VEGA", "IV">>

\* `for f in fields: if f not in self.data or self.data[f] is None: ... break`
RECURSIVE AllObserved(_, _)
AllObserved(data, fields) ==
    IF fields = <<>> THEN TRUE
    ELSE IF data[Head(fields)] = None THEN FALSE
    ELSE AllObserved(data, Tail(fields))

\* PriceData.is_complete with the required set of every type.
is_complete_stock_fields(data, security_type) ==
    /\ security_type = "OPT" => AllObserved(data, stock_fields)
    /\ security_type = "STK" => AllObserved(data, stock_fields)

\* PriceData.is_complete
is_complete(data, security_type) ==
    /\ security_type = "OPT" => AllObserved(data, option_fields)
    /\ security_type = "STK" => AllObserved(data, stock_fields)

\* The values of one tickOptionComputation event.
Computation(delta, impliedVol, gamma, vega, theta, optPrice) ==
    [delta |-> delta, impliedVol |-> impliedVol, gamma |-> gamma, vega |-> vega,
     theta |-> theta, optPrice |-> optPrice]

\* on_tick_option_computation: the updates of the leg's snapshot
option_computation(data, c) ==
    LET greeks == update(update(update(update(update(data,
                      c.delta, "DELTA"), c.impliedVol, "IV"), c.gamma, "GAMMA"),
                      c.vega, "VEGA"), c.theta, "THETA")
    IN  IF c.optPrice # None THEN update(greeks, c.optPrice, "MARK_PRICE")
        ELSE greeks

\* -------------------------------------------------- SymbolProcessor ----
\* SymbolProcessor.__init__ (emitted counts the calls of save_results).
NewProcessor ==
    [status |-> "PENDING", failed |-> FALSE,
     stock_contract_received |-> FALSE, price_received |-> FALSE,
     history_received |-> FALSE, option_chain_complete |-> FALSE,
     analyzing_options |-> FALSE, waiting_for_core_options |-> FALSE,
     waiting_for_range_options |-> FALSE,
     req_ids |-> {}, stock_req_id |-> 0,
     core_option_reqs |-> {}, range_option_reqs |-> {},
     reqid_to_symbol |-> [i \in Ids |-> ""],
     price_data |-> PriceData, historic_data |-> <<>>,
     options_chain |-> {},
     option_price_data |-> [k \in AllKeys |-> [present |-> FALSE, data |-> PriceData]],
     target_option_keys |-> <<>>, expected_move |-> None,
     filter_min_strike |-> None, filter_max_strike |-> None,
     start_time |-> 0, option_chain_req_time |-> None,
     core_options_req_time |-> None, range_options_req_time |-> None,
     emitted |-> 0]

\* SymbolProcessor.is_done
is_done(p) ==
    p.status \in {"COMPLETED", "ABORTED", "FAILED", "FAILED_NO_OPTS",
                  "FAILED_FEW_STRIKES", "FAILED_MISSING_OPT", "FAILED_CALC_ERR",
                  "FAILED_MISSING_DATA", "FAILED_VAL_NONE", "FAILED_PROC_ERR",
                  "TIMEOUT_CORE", "TIMEOUT_OVERALL", "ERROR_HISTORY"}

\* set_status together with the `self.failed = True` that precedes it.
Fail(W, t, status) ==
    [W EXCEPT !.proc[t].failed = TRUE, !.proc[t].status = status]

\* SymbolProcessor.is_good_stock
is_good_stock(data) ==
    LET last == data["LAST"]
        ask == data["ASK"]
        bid == data["BID"]
        val == get_instrument_value(data)
    IN  /\ ~(last # None /\ last > -1 /\ last < PRICE_FLOOR)
        /\ ~(ask # None /\ ask > -1 /\ ask < PRICE_FLOOR)
        /\ ~(bid # None /\ bid > -1 /\ bid < PRICE_FLOOR)
        /\ ~(val = None \/ val < PRICE_FLOOR)

\* nextId, register_handler and req_ids.add, as every req_* method starts;
\* the new id is the store's requestId afterwards.
NewRequest(W, t) ==
    LET W1 == nextId(W)
        reqId == W1.app.requestId
    IN  [register_handler(W1, reqId, t) EXCEPT !.proc[t].req_ids = @ \cup {reqId},
                                               !.log.owner[reqId] = t]

\* SymbolProcessor.start
start(W, t) ==
    LET W1 == NewRequest([W EXCEPT !.proc[t].status = "GETTING_STOCK_CONTRACT"], t)
    IN  reqContractDetails(W1, W1.app.requestId, "STK", NoCallback)

\* SymbolProcessor.stop: list(self.req_ids) is walked in ascending order.
RECURSIVE StopEach(_, _)
StopEach(W, ids) ==
    IF ids = {} THEN W
    ELSE LET reqId == CHOOSE i \in ids : \A j \in ids : i <= j
             waiting == reqId \in QueueIds(W.app.mkt_data_queue)
                                  \cup QueueIds(W.app.contract_queue)
             W0 == [W EXCEPT !.log.cancelledQueued =
                                 IF waiting THEN @ \cup {reqId} ELSE @]
             W1 == unregister_handler(
                       cancelHistoricalData(cancelMktData(W0, reqId), reqId), reqId)
         IN  StopEach(W1, ids \ {reqId})

stop(W, t) ==
    [StopEach(W, W.proc[t].req_ids) EXCEPT !.proc[t].req_ids = {}]

\* SymbolProcessor.req_market_data_stock
req_market_data_stock(W, t) ==
    LET W1 == NewRequest(W, t)
        reqId == W1.app.requestId
    IN  reqMktData([W1 EXCEPT !.proc[t].stock_req_id = reqId], reqId, "STK", NoCallback)

\* SymbolProcessor.req_history
req_history(W, t) ==
    LET W1 == NewRequest(W, t) IN reqHistoricalData(W1, W1.app.requestId)

\* SymbolProcessor.req_option_chain
req_option_chain(W, t) ==
    LET W1 == NewRequest(W, t)
        W2 == reqContractDetails(W1, W1.app.requestId, "OPT",
                                 Callback("option_chain_req_time", t))
    IN  [W2 EXCEPT !.proc[t].reqid_to_symbol = [i \in Ids |-> ""]]

\* SymbolProcessor.req_option_data
req_option_data(W, t, key, is_core) ==
    LET W1 == NewRequest(W, t)
        reqId == W1.app.requestId
        W2 == [W1 EXCEPT !.proc[t].reqid_to_symbol[reqId] = key,
                         !.proc[t].core_option_reqs =
                             IF is_core THEN @ \cup {reqId} ELSE @,
                         !.proc[t].range_option_reqs =
                             IF is_core THEN @ ELSE @ \cup {reqId}]
    IN  reqMktData(W2, reqId, key,
                   Callback(IF is_core THEN "core_options_req_time"
                                       ELSE "range_options_req_time", t))

\* `for key in keys: self.req_option_data(key, ..., is_core)`
RECURSIVE RequestEach(_, _, _, _)
RequestEach(W, t, keys, is_core) ==
    IF keys = <<>> THEN W
    ELSE RequestEach(req_option_data(W, t, Head(keys), is_core), t, Tail(keys), is_core)

\* ------------------------------------ start_expected_move_calc (pure) ----
Abs(x) == IF x < 0 THEN -x ELSE x
Distance(key, price) == Abs(Strike(key) - price)

\* options_df.nsmallest(6, 'distance_from_price'): the six entries closest to
\* the price, ties kept in the chain's order of arrival.
Closer(k1, k2, price) ==
    \/ Distance(k1, price) < Distance(k2, price)
    \/ Distance(k1, price) = Distance(k2, price) /\ Rank(k1) < Rank(k2)
closest_options(chain, price) ==
    {k \in chain : Cardinality({k2 \in chain : Closer(k2, k, price)}) < 6}

\* sorted distinct values of a set of integers, ascending.
RECURSIVE Sorted(_)
Sorted(S) ==
    IF S = {} THEN <<>>
    ELSE LET m == CHOOSE x \in S : \A y \in S : x <= y
         IN  <<m>> \o Sorted(S \ {m})

\* closest_options['strike'].unique() after sort_values(by='strike')
unique_strikes(chain, price) ==
    Sorted({Strike(k) : k \in closest_options(chain, price)})

\* closest_options[(strike == s) & (right == r)]: the matching entries.
Matching(chain, price, s, r) ==
    {k \in closest_options(chain, price) : Strike(k) = s /\ Right(k) = r}
First(S) == CHOOSE k \in S : \A k2 \in S : Rank(k) <= Rank(k2)

\* The outcome of the selection: the status it fails with, or "ok" and
\* target_option_keys = [atm_call, atm_put, strangle_call, strangle_put].
Selection(chain, price) ==
    LET us == unique_strikes(chain, price) IN
    IF chain = {} THEN [status |-> "FAILED_NO_OPTS", keys |-> <<>>]
    ELSE IF Len(us) < 3 THEN [status |-> "FAILED_FEW_STRIKES", keys |-> <<>>]
    ELSE LET atm_call == Matching(chain, price, us[2], "C")
             atm_put == Matching(chain, price, us[2], "P")
             strangle_put == Matching(chain, price, us[1], "P")
             strangle_call == Matching(chain, price, us[3], "C")
         IN  IF {} \in {atm_call, atm_put, strangle_put, strangle_call}
             THEN [status |-> "FAILED_MISSING_OPT", keys |-> <<>>]
             ELSE [status |-> "ok",
                   keys |-> <<First(atm_call), First(atm_put),
                              First(strangle_call), First(strangle_put)>>]

\* --------------------------------- process_expected_move_result (pure) ----
RECURSIVE Sum(_)
Sum(vals) == IF vals = <<>> THEN 0 ELSE Head(vals) + Sum(Tail(vals))

\* a variant that forgets to halve the sum
ExpectedMove_no_halving(vals) == Sum(vals)

\* `self.expected_move = sum(vals) / 2`
ExpectedMove(vals) == Sum(vals) \div 2

\* idx_min: the first index whose strike is >= the lower band (default 0);
\* idx_max: the last index whose strike is <= the upper band (default last).
\* Indices are 1-based here.
IdxMin(strikes, down) ==
    LET hits == {i \in 1 .. Len(strikes) : strikes[i] >= down}
    IN  IF hits = {} THEN 1 ELSE CHOOSE i \in hits : \A j \in hits : i <= j
IdxMax(strikes, up) ==
    LET hits == {i \in 1 .. Len(strikes) : strikes[i] <= up}
    IN  IF hits = {} THEN Len(strikes) ELSE CHOOSE i \in hits : \A j \in hits : i >= j
Max2(a, b) == IF a >= b THEN a ELSE b
Min2(a, b) == IF a <= b THEN a ELSE b

\* <<filter_min_strike, filter_max_strike>> for a chain, a price and a move.
FilterStrikes(chain, price, move) ==
    LET strikes == Sorted({Strike(k) : k \in chain})
        lo == Max2(1, IdxMin(strikes, price - 2 * move) - 2)
        hi == Min2(Len(strikes), IdxMax(strikes, price + 2 * move) + 2)
    IN  <<strikes[lo], strikes[hi]>>

\* The chain's keys as a sequence in order of arrival.
RECURSIVE InOrder(_)
InOrder(S) ==
    IF S = {} THEN <<>>
    ELSE LET k == First(S) IN <<k>> \o InOrder(S \ {k})

\* The entries process_expected_move_result subscribes to as range legs.
RangeKeys(p) ==
    InOrder({k \in p.options_chain :
                /\ p.filter_min_strike <= Strike(k)
                /\ Strike(k) <= p.filter_max_strike
                /\ ~p.option_price_data[k].present})

\* check_core_options_complete: every target key has a usable value.
CoreReady(p) ==
    \A i \in 1 .. Len(p.target_option_keys) :
        LET key == p.target_option_keys[i] IN
        /\ p.option_price_data[key].present
        /\ get_instrument_value(p.option_price_data[key].data) # None

\* check_range_options_complete: the range legs still without a usable value.
PendingRange(p) ==
    {reqId \in p.range_option_reqs :
        LET key == p.reqid_to_symbol[reqId] IN
        /\ key # ""
        /\ \/ ~p.option_price_data[key].present
           \/ get_instrument_value(p.option_price_data[key].data) = None}

\* ------------------------------------------------------------ threads ----
\* A frame: the block to run, its Task (self), its reqId and its payload.
F(op, t, r, k, v) == [op |-> op, t |-> t, r |-> r, k |-> k, v |-> v]
Call(op, t) == F(op, t, 0, "", 0)
At(th, op) == thr[th] # <<>> /\ Head(thr[th]).op = op
Commit(W) == app' = W.app /\ proc' = W.proc /\ svc' = W.svc /\ log' = W.log
\* nextId can still hand out n ids.
Room(n) == app.requestId + n <= MaxId

\* ---------------------------------------------- tests of Task fields ----
\* Each test yields the frames that replace it: none when it fails, the
\* block it guards when it passes.

\* check_step_expected_move
check_step_expected_move(p, t) ==
    IF /\ p.price_received
       /\ p.option_chain_complete
       /\ ~p.analyzing_options
       /\ ~p.waiting_for_core_options
       /\ ~p.waiting_for_range_options
    THEN <<Call("start_expected_move_calc", t)>>
    ELSE <<>>

\* check_completion: the two tests
check_completion(p, t) ==
    IF p.failed \/ p.status = "COMPLETED" THEN <<>>
    ELSE IF /\ p.history_received
            /\ ~p.waiting_for_core_options
            /\ ~p.waiting_for_range_options
            /\ p.analyzing_options
    THEN <<Call("check_completion_save", t)>>
    ELSE <<>>

\* tick: the test of "Fallback for stock price"
tick_fallback(p, t, clock) ==
    IF /\ p.status = "PROCESSING"
       /\ ~p.price_received
       /\ p.history_received
       /\ clock - p.start_time > PRICE_FALLBACK_DELAY
       /\ p.historic_data # <<>>
    THEN <<Call("tick_fallback_price", t)>>
    ELSE <<>>

\* tick: `if not self.option_chain_complete: self.check_option_chain_timeout()`
check_option_chain_timeout(p, t, clock) ==
    IF /\ ~p.option_chain_complete
       /\ p.status = "PROCESSING"
       /\ p.option_chain_req_time # None
       /\ clock - p.option_chain_req_time > CHAIN_TIMEOUT
    THEN <<Call("option_chain_timeout", t)>>
    ELSE <<>>

\* tick: `if self.waiting_for_core_options: self.check_core_options_complete()`
check_core_options_complete(p, t, clock) ==
    IF ~p.waiting_for_core_options THEN <<>>
    ELSE IF CoreReady(p) THEN <<Call("process_expected_move_result", t)>>
    ELSE IF /\ p.core_options_req_time # None
            /\ clock - p.core_options_req_time > CORE_TIMEOUT
    THEN <<Call("core_options_timeout", t)>>
    ELSE <<>>

\* tick: `if self.waiting_for_range_options: self.check_range_options_complete()`
check_range_options_complete(p, t, clock) ==
    IF ~p.waiting_for_range_options THEN <<>>
    ELSE IF \/ PendingRange(p) = {}
            \/ /\ p.range_options_req_time # None
               /\ clock - p.range_options_req_time > RANGE_TIMEOUT
    THEN <<Call("range_options_done", t)>>
    ELSE <<>>

\* tick: the entry test and the overall-timeout test, then the tests in the
\* order of the method's body
tick(p, t, clock) ==
    IF p.failed \/ p.status \in {"COMPLETED", "ABORTED"} THEN <<>>
    ELSE IF clock - p.start_time > OVERALL_TIMEOUT
    THEN <<Call("tick_timeout", t)>>
    ELSE <<Call("tick_fallback", t), Call("check_option_chain_timeout", t),
           Call("check_core_options_complete", t),
           Call("check_range_options_complete", t), Call("check_completion", t)>>

Tests == {"tick", "tick_fallback", "check_option_chain_timeout",
          "check_core_options_complete", "check_range_options_complete",
          "check_completion", "check_step_expected_move"}

Resolve(W, f) ==
    LET p == W.proc[f.t] IN
    CASE f.op = "tick" -> tick(p, f.t, W.now)
      [] f.op = "tick_fallback" -> tick_fallback(p, f.t, W.now)
      [] f.op = "check_option_chain_timeout" -> check_option_chain_timeout(p, f.t, W.now)
      [] f.op = "check_core_options_complete" -> check_core_options_complete(p, f.t, W.now)
      [] f.op = "check_range_options_complete" -> check_range_options_complete(p, f.t, W.now)
      [] f.op = "check_completion" -> check_completion(p, f.t)
      [] f.op = "check_step_expected_move" -> check_step_expected_move(p, f.t)
      [] OTHER -> <<f>>

\* A thread runs on through the tests that fail and stops in front of the
\* block a passing test guards (or with nothing left to run).
RECURSIVE Settle(_, _)
Settle(W, frames) ==
    IF frames = <<>> \/ Head(frames).op \notin Tests THEN frames
    ELSE Settle(W, Resolve(W, Head(frames)) \o Tail(frames))

\* monitoring loop: `if not p.is_done: active_count += 1`, and after the last
\* processor `if active_count == 0: break`, else the next round
AfterTick(p) ==
    LET count == main.active_count + (IF is_done(p) THEN 0 ELSE 1) IN
    IF main.i < NumTasks
    THEN [pc |-> "loop", i |-> main.i + 1, active_count |-> count]
    ELSE IF count = 0
    THEN [pc |-> "done", i |-> 1, active_count |-> 0]
    ELSE [pc |-> "loop", i |-> 1, active_count |-> 0]

\* The thread's block is done: its effect is W, and `stack` is what it still
\* has to run.
Proceed(th, W, stack) ==
    /\ Commit(W)
    /\ thr' = [thr EXCEPT ![th] = Settle(W, stack)]
    /\ UNCHANGED main

\* What a handler's first block leaves: its effect and the blocks that follow.
R(W, frames) == [W |-> W, frames |-> frames]

\* ------------------------------------------- SymbolProcessor handlers ----
\* on_contract_details without the test of the status
on_contract_details_every_match(W, t, key) ==
    R(W, <<Call("on_contract_details_stock", t)>>)

\* on_contract_details: the test of the status, and the chain entry
on_contract_details(W, t, key) ==
    LET p == W.proc[t] IN
    IF p.status = "GETTING_STOCK_CONTRACT"
    THEN R(W, <<Call("on_contract_details_stock", t)>>)
    ELSE IF p.status \in {"PROCESSING", "FETCHING_CHAIN"}
    THEN R([W EXCEPT !.proc[t].options_chain = @ \cup {key}], <<>>)
    ELSE R(W, <<>>)

\* on_contract_details_end: the tests
on_contract_details_end(W, t) ==
    LET p == W.proc[t] IN
    IF /\ p.status \in {"PROCESSING", "FETCHING_CHAIN"}
       /\ ~p.option_chain_complete
       /\ p.options_chain # {}
    THEN R(W, <<Call("on_contract_details_end_complete", t)>>)
    ELSE R(W, <<>>)

\* on_tick_price -> handle_tick: the update and the tests
handle_tick(W, t, reqId, field, value) ==
    LET p == W.proc[t]
        data == update(p.price_data, value, field)
        key == p.reqid_to_symbol[reqId]
    IN  IF p.stock_req_id # 0 /\ reqId = p.stock_req_id
        THEN IF ~p.price_received /\ get_instrument_value(data) # None
             THEN R([W EXCEPT !.proc[t].price_data = data],
                    <<Call("handle_tick_price", t)>>)
             ELSE R([W EXCEPT !.proc[t].price_data = data], <<>>)
        ELSE IF reqId \in p.core_option_reqs \cup p.range_option_reqs /\ key # ""
        THEN R([W EXCEPT !.proc[t].option_price_data[key] =
                   [present |-> TRUE, data |-> update(@.data, value, field)]], <<>>)
        ELSE R(W, <<>>)

\* on_tick_option_computation (here the greeks arrive as 0)
on_tick_option_computation(W, t, reqId, optPrice) ==
    LET key == W.proc[t].reqid_to_symbol[reqId]
        old == W.proc[t].option_price_data[key].data
    IN  IF key # ""
        THEN R([W EXCEPT !.proc[t].option_price_data[key] =
                   [present |-> TRUE,
                    data |-> option_computation(
                                 old, Computation(0, 0, 0, 0, 0, optPrice))]], <<>>)
        ELSE R(W, <<>>)

\* on_historical_data (a bar is its close)
on_historical_data(W, t, close) ==
    R([W EXCEPT !.proc[t].historic_data = Append(@, close)], <<>>)

\* on_historical_data_end, the try block when it runs through
on_historical_data_end(W, t, reqId) ==
    R([unregister_handler(cancelHistoricalData(W, reqId), reqId)
          EXCEPT !.proc[t].history_received = TRUE,
                 !.proc[t].req_ids = @ \ {reqId}],
      <<Call("check_completion", t)>>)

\* on_historical_data_end, the except branch
on_historical_data_end_except(W, t) == R(Fail(W, t, "ERROR_HISTORY"), <<>>)

\* on_error without the test of the status
on_error_any_status(W, t, reqId, errorCode) ==
    IF errorCode \in {2104, 2106, 2158} THEN R(W, <<>>)
    ELSE IF reqId \in W.proc[t].req_ids
    THEN R(W, <<Call("on_error_failed", t)>>)
    ELSE R(W, <<>>)

\* on_error: the tests
on_error(W, t, reqId, errorCode) ==
    IF errorCode \in {2104, 2106, 2158} THEN R(W, <<>>)
    ELSE IF reqId \in W.proc[t].req_ids /\ W.proc[t].status = "GETTING_STOCK_CONTRACT"
    THEN R(W, <<Call("on_error_failed", t)>>)
    ELSE R(W, <<>>)

\* ------------------------------------------------ EWrapper callbacks ----
\* The callback thread is between events, the connection is up, and the
\* service has the request open.
Idle ==
    /\ thr["cb"] = <<>>
    /\ main.pc # "done"

Open(reqId, msg) ==
    /\ Idle
    /\ svc.state[reqId] = "open"
    /\ svc.req[reqId] = msg

\* The service has sent one more data event for the request (events that
\* find no handler are dropped by the router and not counted).
Sent(W, reqId) ==
    IF Handler(W, reqId) = NoTask THEN W
    ELSE [W EXCEPT !.svc.delivered[reqId] = @ + 1]

\* `if handler: handler.on_...(...)`: the handler's first block has run
\* (CallOut(W, "handler") is the call into it) and leaves r.
Deliver(W, r) ==
    /\ Proceed("cb", r.W, r.frames)
    /\ UNCHANGED now

\* EarningsApp.contractDetails, for a symbol with up to `matches` contracts
contractDetailsOf(reqId, matches) ==
    /\ Open(reqId, "reqContractDetails")
    /\ svc.delivered[reqId] <
           (IF svc.contract[reqId] = "STK" THEN matches ELSE Len(ChainList))
    /\ LET W == Sent(Store, reqId)
           t == Handler(W, reqId)
           key == IF svc.contract[reqId] = "STK" THEN "STK"
                  ELSE ChainList[svc.delivered[reqId] + 1]
       IN  Deliver(W, IF t = NoTask THEN R(W, <<>>) ELSE on_contract_details(CallOut(W, "handler"), t, key))

contractDetails(reqId) == contractDetailsOf(reqId, MaxMatches)

\* EarningsApp.contractDetailsEnd
contractDetailsEnd(reqId) ==
    /\ Open(reqId, "reqContractDetails")
    /\ LET W == ReleaseContract([Store EXCEPT !.svc.state[reqId] = "closed"], reqId)
           t == Handler(W, reqId)
       IN  Deliver(W, IF t = NoTask THEN R(W, <<>>) ELSE on_contract_details_end(CallOut(W, "handler"), t))

\* EarningsApp.tickPrice
tickPrice(reqId) ==
    /\ Open(reqId, "reqMktData")
    /\ svc.contract[reqId] = "STK"
    /\ svc.delivered[reqId] < MaxTicks
    /\ \E input \in StockTickInputs :
           LET W == Sent(Store, reqId)
               t == Handler(W, reqId)
           IN  Deliver(W, IF t = NoTask THEN R(W, <<>>)
                          ELSE handle_tick(CallOut(W, "handler"), t, reqId, input[1], input[2]))

\* EarningsApp.tickOptionComputation
tickOptionComputation(reqId) ==
    /\ Open(reqId, "reqMktData")
    /\ svc.contract[reqId] # "STK"
    /\ svc.delivered[reqId] < MaxTicks
    /\ \E optPrice \in OptionPriceInputs :
           LET W == Sent(Store, reqId)
               t == Handler(W, reqId)
           IN  Deliver(W, IF t = NoTask THEN R(W, <<>>)
                          ELSE on_tick_option_computation(CallOut(W, "handler"), t, reqId, optPrice))

\* EarningsApp.historicalData
historicalData(reqId) ==
    /\ Open(reqId, "reqHistoricalData")
    /\ svc.delivered[reqId] < MaxBars
    /\ \E close \in BarCloseInputs :
           LET W == Sent(Store, reqId)
               t == Handler(W, reqId)
           IN  Deliver(W, IF t = NoTask THEN R(W, <<>>)
                          ELSE on_historical_data(CallOut(W, "handler"), t, close))

\* EarningsApp.historicalDataEnd.  With no bar received the frame's columns
\* have dtype object and nlargest may raise; the except branch then runs.
historicalDataEnd(reqId) ==
    /\ Open(reqId, "reqHistoricalData")
    /\ LET W == [Store EXCEPT !.svc.state[reqId] = "closed"]
           t == Handler(W, reqId)
       IN  \/ Deliver(W, IF t = NoTask THEN R(W, <<>>)
                         ELSE on_historical_data_end(CallOut(W, "handler"), t, reqId))
           \/ /\ t # NoTask
              /\ W.proc[t].historic_data = <<>>
              /\ Deliver(W, on_historical_data_end_except(CallOut(W, "handler"), t))

\* EarningsApp.error: a request error is the service's answer to a request it
\* cannot serve, in place of any data, and ends the request; a connectivity
\* notice does not.
errorOf(reqId, codes) ==
    /\ Idle
    /\ svc.state[reqId] = "open"
    /\ \E errorCode \in codes :
           /\ errorCode = 200 => svc.errors < MaxErrors /\ svc.delivered[reqId] = 0
           /\ LET W == ReleaseContract(
                           [Store EXCEPT !.svc.state[reqId] =
                                            IF errorCode = 200 THEN "closed" ELSE @,
                                        !.svc.errors =
                                            IF errorCode = 200 THEN @ + 1 ELSE @],
                           reqId)
                  t == Handler(W, reqId)
              IN  Deliver(W, IF t = NoTask THEN R(W, <<>>)
                             ELSE on_error(CallOut(W, "handler"), t, reqId, errorCode))

error(reqId) == errorOf(reqId, ErrorCodeInputs)

\* ------------------------------------------------------------- blocks ----
\* Each block maps the store and the thread's stack (the block's own frame on
\* top) to the store and the stack it leaves.

\* on_contract_details, up to set_status("PROCESSING")
do_on_contract_details_stock(W, stack) ==
    LET t == Head(stack).t IN
    R([W EXCEPT !.proc[t].stock_contract_received = TRUE,
                !.proc[t].status = "PROCESSING"],
      <<Call("on_contract_details_requests", t)>> \o Tail(stack))

\* on_contract_details_end: `self.option_chain_complete = True`
do_on_contract_details_end_complete(W, stack) ==
    LET t == Head(stack).t IN
    R([W EXCEPT !.proc[t].option_chain_complete = TRUE],
      <<Call("check_step_expected_move", t)>> \o Tail(stack))

\* handle_tick: `self.price_received = True`
do_handle_tick_price(W, stack) ==
    LET t == Head(stack).t IN
    R([W EXCEPT !.proc[t].price_received = TRUE],
      <<Call("handle_tick_screen", t)>> \o Tail(stack))

\* on_error: set_status("FAILED")
do_on_error_failed(W, stack) == R(Fail(W, Head(stack).t, "FAILED"), Tail(stack))

\* on_contract_details, "Fire parallel requests"
do_on_contract_details_requests(W, stack) ==
    LET t == Head(stack).t IN
    R(req_option_chain(req_history(req_market_data_stock(W, t), t), t), Tail(stack))

\* handle_tick, from `is_good, reason = self.is_good_stock()`
do_handle_tick_screen(W, stack) ==
    LET t == Head(stack).t IN
    IF ~is_good_stock(W.proc[t].price_data)
    THEN R(Fail(W, t, "ABORTED"), <<Call("stop", t)>> \o Tail(stack))
    ELSE R(W, <<Call("check_step_expected_move", t)>> \o Tail(stack))

\* start_expected_move_calc: `self.analyzing_options = True`
do_start_expected_move_calc(W, stack) ==
    LET t == Head(stack).t IN
    R([W EXCEPT !.proc[t].analyzing_options = TRUE],
      <<Call("start_expected_move_calc_select", t)>> \o Tail(stack))

\* start_expected_move_calc: the try block
do_start_expected_move_calc_select(W, stack) ==
    LET t == Head(stack).t
        p == W.proc[t]
        sel == Selection(p.options_chain, get_instrument_value(p.price_data))
    IN  IF sel.status # "ok"
        THEN R(Fail(W, t, sel.status), <<Call("stop", t)>> \o Tail(stack))
        ELSE R(RequestEach([W EXCEPT !.proc[t].target_option_keys = sel.keys,
                                     !.proc[t].waiting_for_core_options = TRUE],
                           t, sel.keys, TRUE),
               Tail(stack))

\* process_expected_move_result, up to the log of the expected move
do_process_expected_move_result(W, stack) ==
    LET t == Head(stack).t
        p == W.proc[t]
        keys == p.target_option_keys
        absent == {i \in 1 .. Len(keys) : ~p.option_price_data[keys[i]].present}
        unusable == {i \in 1 .. Len(keys) :
                        \/ ~p.option_price_data[keys[i]].present
                        \/ get_instrument_value(p.option_price_data[keys[i]].data) = None}
        first == CHOOSE i \in unusable : \A j \in unusable : i <= j
        vals == [i \in 1 .. Len(keys) |->
                    get_instrument_value(p.option_price_data[keys[i]].data)]
    IN  IF unusable # {}
        THEN R(Fail(W, t, IF first \in absent THEN "FAILED_MISSING_DATA"
                                               ELSE "FAILED_VAL_NONE"),
               <<Call("stop", t)>> \o Tail(stack))
        ELSE R([W EXCEPT !.proc[t].expected_move = ExpectedMove(vals)],
               <<Call("process_expected_move_result_range", t)>> \o Tail(stack))

\* process_expected_move_result: "Expand boundaries" and the two flags
RangeWindow(W, t) ==
    LET p == W.proc[t]
        window == FilterStrikes(p.options_chain,
                                get_instrument_value(p.price_data), p.expected_move)
    IN  [W EXCEPT !.proc[t].filter_min_strike = window[1],
                  !.proc[t].filter_max_strike = window[2],
                  !.proc[t].waiting_for_core_options = FALSE,
                  !.proc[t].waiting_for_range_options = TRUE]

\* process_expected_move_result, from "Expand boundaries" to the log of the
\* count
do_process_expected_move_result_range(W, stack) ==
    LET t == Head(stack).t
        W1 == RangeWindow(W, t)
        keys == RangeKeys(W1.proc[t])
    IN  IF keys = <<>>
        THEN R(W1, <<Call("process_expected_move_result_none", t)>> \o Tail(stack))
        ELSE R(RequestEach(W1, t, keys, FALSE), Tail(stack))

\* process_expected_move_result, `if count == 0:`
do_process_expected_move_result_none(W, stack) ==
    LET t == Head(stack).t IN
    R([W EXCEPT !.proc[t].waiting_for_range_options = FALSE],
      <<Call("check_completion", t)>> \o Tail(stack))

\* check_completion: save_results() and set_status("COMPLETED")
do_check_completion_save(W, stack) ==
    LET t == Head(stack).t IN
    R([W EXCEPT !.proc[t].emitted = @ + 1, !.proc[t].status = "COMPLETED"],
      <<Call("stop", t)>> \o Tail(stack))

\* SymbolProcessor.stop
do_stop(W, stack) == R(stop(W, Head(stack).t), Tail(stack))

\* tick: set_status("TIMEOUT_OVERALL")
do_tick_timeout(W, stack) ==
    LET t == Head(stack).t IN
    R(Fail(W, t, "TIMEOUT_OVERALL"), <<Call("stop", t)>> \o Tail(stack))

\* a variant of the fallback that does not screen the close
do_tick_fallback_price_unscreened(W, stack) ==
    LET t == Head(stack).t
        p == W.proc[t]
        close == p.historic_data[Len(p.historic_data)]
    IN  R([W EXCEPT !.proc[t].price_data = update(p.price_data, close, "LAST"),
                    !.proc[t].price_received = TRUE],
          <<Call("check_step_expected_move", t)>> \o Tail(stack))

\* tick: the fallback takes the last close as the price.  On rejection tick
\* returns after stop(): the four tests left of its body are dropped.
do_tick_fallback_price(W, stack) ==
    LET t == Head(stack).t
        p == W.proc[t]
        close == IF p.historic_data = <<>> THEN None
                 ELSE p.historic_data[Len(p.historic_data)]
        data == update(p.price_data, close, "LAST")
        W1 == [W EXCEPT !.proc[t].price_data = data,
                        !.proc[t].price_received = TRUE]
    IN  IF ~is_good_stock(data)
        THEN R(Fail(W1, t, "ABORTED"),
               <<Call("stop", t)>> \o SubSeq(stack, 6, Len(stack)))
        ELSE R(W1, <<Call("check_step_expected_move", t)>> \o Tail(stack))

\* a variant that marks the chain complete and does not look at the next step
do_option_chain_timeout_no_check(W, stack) ==
    LET t == Head(stack).t IN
    R([W EXCEPT !.proc[t].option_chain_complete = TRUE], Tail(stack))

\* check_option_chain_timeout: `self.option_chain_complete = True`
do_option_chain_timeout(W, stack) ==
    LET t == Head(stack).t IN
    R([W EXCEPT !.proc[t].option_chain_complete = TRUE],
      <<Call("check_step_expected_move", t)>> \o Tail(stack))

\* check_core_options_complete: set_status("TIMEOUT_CORE")
do_core_options_timeout(W, stack) ==
    LET t == Head(stack).t IN
    R(Fail(W, t, "TIMEOUT_CORE"), <<Call("stop", t)>> \o Tail(stack))

\* check_range_options_complete: `self.waiting_for_range_options = False`
do_range_options_done(W, stack) ==
    LET t == Head(stack).t IN
    R([W EXCEPT !.proc[t].waiting_for_range_options = FALSE],
      <<Call("check_completion", t)>> \o Tail(stack))

\* The block on top of the stack.
Exec(W, stack) ==
    LET op == Head(stack).op IN
    CASE op = "on_contract_details_stock" -> do_on_contract_details_stock(W, stack)
      [] op = "on_contract_details_end_complete" ->
             do_on_contract_details_end_complete(W, stack)
      [] op = "handle_tick_price" -> do_handle_tick_price(W, stack)
      [] op = "on_error_failed" -> do_on_error_failed(W, stack)
      [] op = "on_contract_details_requests" -> do_on_contract_details_requests(W, stack)
      [] op = "handle_tick_screen" -> do_handle_tick_screen(W, stack)
      [] op = "start_expected_move_calc" -> do_start_expected_move_calc(W, stack)
      [] op = "start_expected_move_calc_select" -> do_start_expected_move_calc_select(W, stack)
      [] op = "process_expected_move_result" -> do_process_expected_move_result(W, stack)
      [] op = "process_expected_move_result_range" ->
             do_process_expected_move_result_range(W, stack)
      [] op = "process_expected_move_result_none" ->
             do_process_expected_move_result_none(W, stack)
      [] op = "check_completion_save" -> do_check_completion_save(W, stack)
      [] op = "stop" -> do_stop(W, stack)
      [] op = "tick_timeout" -> do_tick_timeout(W, stack)
      [] op = "tick_fallback_price" -> do_tick_fallback_price(W, stack)
      [] op = "option_chain_timeout" -> do_option_chain_timeout(W, stack)
      [] op = "core_options_timeout" -> do_core_options_timeout(W, stack)
      [] op = "range_options_done" -> do_range_options_done(W, stack)

\* A thread has run the block on top of its stack, with result r (nextId
\* can still hand out the ids the block draws).
Block(th, r) ==
    /\ r.W.app.requestId <= MaxId
    /\ Proceed(th, r.W, r.frames)
    /\ UNCHANGED now

OnContractDetailsStock(th) ==
    /\ At(th, "on_contract_details_stock")
    /\ Block(th, do_on_contract_details_stock(Store, thr[th]))
OnContractDetailsEndComplete(th) ==
    /\ At(th, "on_contract_details_end_complete")
    /\ Block(th, do_on_contract_details_end_complete(Store, thr[th]))
HandleTickPrice(th) ==
    /\ At(th, "handle_tick_price")
    /\ Block(th, do_handle_tick_price(Store, thr[th]))
OnErrorFailed(th) ==
    /\ At(th, "on_error_failed")
    /\ Block(th, do_on_error_failed(Store, thr[th]))
OnContractDetailsRequests(th) ==
    /\ At(th, "on_contract_details_requests")
    /\ Block(th, do_on_contract_details_requests(Store, thr[th]))
HandleTickScreen(th) ==
    /\ At(th, "handle_tick_screen")
    /\ Block(th, do_handle_tick_screen(Store, thr[th]))
StartExpectedMoveCalc(th) ==
    /\ At(th, "start_expected_move_calc")
    /\ Block(th, do_start_expected_move_calc(Store, thr[th]))
StartExpectedMoveCalcSelect(th) ==
    /\ At(th, "start_expected_move_calc_select")
    /\ Block(th, do_start_expected_move_calc_select(Store, thr[th]))
CheckCompletionSave(th) ==
    /\ At(th, "check_completion_save")
    /\ Block(th, do_check_completion_save(Store, thr[th]))
Stop(th) ==
    /\ At(th, "stop")
    /\ Block(th, do_stop(Store, thr[th]))

\* --------------------------------------------------------------- main ----
\* main: `p = SymbolProcessor(app, sym); p.start()` for the next symbol
MainStart ==
    /\ main.pc = "start"
    /\ Room(1)
    /\ LET t == main.i IN
       Commit(start([Store EXCEPT !.proc[t].start_time = now], t))
    /\ main' = IF main.i = NumTasks
               THEN [pc |-> "loop", i |-> 1, active_count |-> 0]
               ELSE [main EXCEPT !.i = @ + 1]
    /\ UNCHANGED <<thr, now>>

\* The instants at which the monitoring loop may find the clock when
\* time.sleep(0.5) returns: the same, the next, and after the last instant of
\* the horizon one that is past the overall timeout.
Clock ==
    {now} \cup {c \in {now + TimeStep} : c <= Horizon}
          \cup {c \in {Horizon + OVERALL_TIMEOUT + 1} :
                    now <= Horizon /\ now + TimeStep > Horizon}

\* p.tick() from its entry to its return.
RECURSIVE RunToEnd(_, _)
RunToEnd(W, stack) ==
    LET frames == Settle(W, stack) IN
    IF frames = <<>> THEN R(W, frames)
    ELSE LET r == Exec(W, frames) IN
         IF r.W.app.requestId > MaxId THEN R(W, frames)
         ELSE RunToEnd(r.W, r.frames)

\* monitoring loop: `p.tick()`.  (Scheduling bound: the tick thread is not
\* preempted inside a tick; the callback thread is, between the blocks of a
\* handler.)
MainTick ==
    /\ main.pc = "loop"
    /\ \E clock \in Clock :
           LET r == RunToEnd([Store EXCEPT !.now = clock], <<Call("tick", main.i)>>) IN
           /\ r.frames = <<>>
           /\ now' = clock
           /\ Commit(r.W)
    /\ main' = [main EXCEPT !.pc = "observe"]
    /\ UNCHANGED thr

\* monitoring loop: `if not p.is_done: active_count += 1`, the end of the
\* round and time.sleep(0.5)
MainObserve ==
    /\ main.pc = "observe"
    /\ main' = AfterTick(proc[main.i])
    /\ UNCHANGED <<app, proc, svc, log, thr, now>>

\* ------------------------------------------------------ specification ----
\* EarningsApp.__init__ with the two pool bounds
EarningsApp(maxMktData, maxContracts) ==
    [requestId |-> 0,
     request_handlers |-> [i \in Ids |-> NoTask],
     lock |-> FALSE,
     MAX_CONCURRENT_MKT_DATA |-> maxMktData,
     active_mkt_requests |-> {}, mkt_data_queue |-> <<>>,
     MAX_CONCURRENT_CONTRACTS |-> maxContracts,
     active_contract_requests |-> {}, contract_queue |-> <<>>]

\* The store when main() has constructed the app and the processors.
Constructed(a) ==
    [app |-> a,
     proc |-> [t \in Tasks |-> NewProcessor],
     svc |-> [state |-> [i \in Ids |-> "none"], req |-> [i \in Ids |-> ""],
              contract |-> [i \in Ids |-> ""], delivered |-> [i \in Ids |-> 0],
              forwarded |-> [i \in Ids |-> 0], cancelMktData |-> [i \in Ids |-> 0],
              cancelHistoricalData |-> [i \in Ids |-> 0], errors |-> 0],
     log |-> [admitted |-> <<>>, queued |-> <<>>, pool |-> [i \in Ids |-> ""],
              owner |-> [i \in Ids |-> NoTask],
              overtook |-> {}, removed |-> {}, cancelledQueued |-> {},
              under_lock |-> {}],
     now |-> 0]

Started(a) ==
    /\ app = Constructed(a).app
    /\ proc = Constructed(a).proc
    /\ svc = Constructed(a).svc
    /\ log = Constructed(a).log
    /\ thr = [th \in Threads |-> <<>>]
    /\ main = [pc |-> "start", i |-> 1, active_count |-> 0]
    /\ now = Constructed(a).now

Init == Started(EarningsApp(MAX_CONCURRENT_MKT_DATA, MAX_CONCURRENT_CONTRACTS))

Event ==
    \E reqId \in Ids :
        \/ contractDetails(reqId)
        \/ contractDetailsEnd(reqId)
        \/ tickPrice(reqId)
        \/ tickOptionComputation(reqId)
        \/ historicalData(reqId)
        \/ historicalDataEnd(reqId)
        \/ error(reqId)

Blocks(th) ==
    \/ OnContractDetailsStock(th)
    \/ OnContractDetailsEndComplete(th)
    \/ HandleTickPrice(th)
    \/ OnErrorFailed(th)
    \/ OnContractDetailsRequests(th)
    \/ HandleTickScreen(th)
    \/ StartExpectedMoveCalc(th)
    \/ StartExpectedMoveCalcSelect(th)
    \/ CheckCompletionSave(th)
    \/ Stop(th)

Next ==
    \/ Event
    \/ \E th \in Threads : Blocks(th)
    \/ MainStart
    \/ MainTick
    \/ MainObserve

Spec == Init /\ [][Next]_vars


\* --------------------------------------------------- the gateway alone ----
\* EarningsApp driven by any caller: every sequence of submissions and
\* cancellations, the service ending or failing what was forwarded to it.
AnyReqMktData ==
    /\ app.requestId < MaxGatewayRequests
    /\ LET W == nextId(Store) IN
       Commit(reqMktData(W, W.app.requestId, "OPT", NoCallback))
    /\ UNCHANGED <<thr, main, now>>

AnyReqContractDetails ==
    /\ app.requestId < MaxGatewayRequests
    /\ LET W == nextId(Store) IN
       Commit(reqContractDetails(W, W.app.requestId, "OPT", NoCallback))
    /\ UNCHANGED <<thr, main, now>>

AnyCancelMktData(reqId) ==
    /\ reqId <= app.requestId
    /\ Commit(cancelMktData(Store, reqId))
    /\ UNCHANGED <<thr, main, now>>

NextGateway ==
    \/ AnyReqMktData
    \/ AnyReqContractDetails
    \/ \E reqId \in Ids :
           \/ AnyCancelMktData(reqId)
           \/ contractDetailsEnd(reqId)
           \/ error(reqId)

InitGateway == Started(EarningsApp(GatewayMktData, GatewayContracts))

SpecGateway == InitGateway /\ [][NextGateway]_vars

\* ------------------------------------------------------------- claims ----
Position(seq, x) == CHOOSE i \in 1 .. Len(seq) : seq[i] = x
Admitted == Range(log.admitted)
Queued == Range(log.queued)
ActiveOf(pool) ==
    IF pool = "mkt" THEN app.active_mkt_requests ELSE app.active_contract_requests
QueueOf(pool) ==
    IF pool = "mkt" THEN app.mkt_data_queue ELSE app.contract_queue
BoundOf(pool) ==
    IF pool = "mkt" THEN app.MAX_CONCURRENT_MKT_DATA ELSE app.MAX_CONCURRENT_CONTRACTS
Pools == {"mkt", "contract"}

\* C1: for each pool, after every gateway operation (submission, cancellation,
\* end-of-data, error) the active set holds at most as many ids as the pool's
\* bound.
C1_ActiveWithinBound ==
    \A pool \in Pools : Cardinality(ActiveOf(pool)) <= BoundOf(pool)

\* C1 witness: both pools are full, one of them after a promotion from its
\* queue, and requests are waiting.
C1_BothPoolsFull ==
    /\ \A pool \in Pools : Cardinality(ActiveOf(pool)) = BoundOf(pool)
    /\ \E pool \in Pools : QueueOf(pool) # <<>>
    /\ \E reqId \in Queued : reqId \in ActiveOf(log.pool[reqId])

\* C2: within a pool, of two requests that were queued and not cancelled while
\* they waited, the one queued later is admitted only after the one queued
\* earlier; and no submission is admitted at once while a request waits in
\* its pool's queue.
C2_AdmittedInSubmissionOrder ==
    /\ \A a, b \in Queued \ log.removed :
           /\ log.pool[a] = log.pool[b]
           /\ Position(log.queued, a) < Position(log.queued, b)
           /\ b \in Admitted
           => /\ a \in Admitted
              /\ Position(log.admitted, a) < Position(log.admitted, b)
    /\ log.overtook = {}

\* C2 witness: two requests that waited in the quote queue have both been
\* admitted.
C2_TwoPromoted ==
    \E a, b \in Queued \cap Admitted :
        /\ a # b
        /\ log.pool[a] = log.pool[b]
        /\ log.pool[a] = "mkt"

\* A step in which the service ends request reqId by its end-of-data event or
\* by a request error (and not by a cancellation sent to it).
Terminates(reqId) ==
    /\ svc.state[reqId] = "open"
    /\ svc.state'[reqId] = "closed"
    /\ svc.cancelMktData'[reqId] = svc.cancelMktData[reqId]
    /\ svc.cancelHistoricalData'[reqId] = svc.cancelHistoricalData[reqId]

\* The pool's slot of reqId is vacated and, when a request waits, the head of
\* the pool's queue takes it.
VacatedAndPromoted(pool, reqId) ==
    /\ reqId \notin ActiveOf(pool)'
    /\ QueueOf(pool) # <<>> =>
           /\ Head(QueueOf(pool)).id \in ActiveOf(pool)'
           /\ QueueOf(pool)' = Tail(QueueOf(pool))

\* C5: when the service ends an in-flight request of either pool, by
\* end-of-data or by an error, the request leaves its pool's active set and
\* the head of that pool's queue, if any, is admitted.
C5_TerminationVacatesSlot ==
    [][\A reqId \in Ids : \A pool \in Pools :
           reqId \in ActiveOf(pool) /\ Terminates(reqId)
           => VacatedAndPromoted(pool, reqId)]_vars

\* C7: cancelling an active quote subscription takes it out of the active
\* set, sends the service exactly one cancellation (for this id and no other),
\* and admits the head of the quote queue when a request waits there: exactly
\* that one request, and none when the queue is empty.
C7_CancelActiveQuote ==
    [][\A reqId \in Ids :
           reqId \in app.active_mkt_requests /\ AnyCancelMktData(reqId)
           => LET q == app.mkt_data_queue
                  promoted == IF q = <<>> THEN {} ELSE {Head(q).id}
              IN  /\ app.active_mkt_requests' =
                         (app.active_mkt_requests \ {reqId}) \cup promoted
                  /\ app.mkt_data_queue' = IF q = <<>> THEN q ELSE Tail(q)
                  /\ svc.cancelMktData' =
                         [svc.cancelMktData EXCEPT ![reqId] = @ + 1]
                  /\ svc.forwarded' =
                         [i \in Ids |-> svc.forwarded[i] + (IF i \in promoted THEN 1 ELSE 0)]
                  /\ app.active_contract_requests' = app.active_contract_requests
                  /\ app.contract_queue' = app.contract_queue]_vars

\* C7 witness: an admitted quote subscription was cancelled, one cancellation
\* reached the service, and a request that waited holds a slot while another
\* still waits.
C7_CancelledAndPromoted ==
    \E reqId \in Admitted :
        /\ log.pool[reqId] = "mkt"
        /\ svc.cancelMktData[reqId] = 1
        /\ reqId \notin app.active_mkt_requests
        /\ \E other \in Queued : other \in app.active_mkt_requests
        /\ app.mkt_data_queue # <<>>

\* --- the Task's life cycle
Cancelled ==
    {"ABORTED", "FAILED", "FAILED_NO_OPTS", "FAILED_FEW_STRIKES", "FAILED_MISSING_OPT",
     "FAILED_CALC_ERR", "FAILED_MISSING_DATA", "FAILED_VAL_NONE", "FAILED_PROC_ERR",
     "TIMEOUT_CORE", "TIMEOUT_OVERALL"}
\* The ids a Task drew that the gateway still holds, active or queued.
HeldBy(t) ==
    {reqId \in Ids : /\ log.owner[reqId] = t
                     /\ reqId \in app.active_mkt_requests
                                  \cup app.active_contract_requests
                                  \cup QueueIds(app.mkt_data_queue)
                                  \cup QueueIds(app.contract_queue)}
\* The thread still has the stop() of Task t to run (it has set the terminal
\* status and not yet released the requests).
Stopping(t) ==
    \E th \in Threads : \E i \in 1 .. Len(thr[th]) :
        thr[th][i].op = "stop" /\ thr[th][i].t = t

\* C3: a Task enters COMPLETED at most once and emits its recommendation
\* record at most once, whatever the interleaving of the supervisor tick with
\* the events (history end-of-data, range completion) that finalize.
C3_EmittedAtMostOnce ==
    \A t \in Tasks : proc[t].emitted <= 1

\* C4: a Task in a terminal state (its exit path run to the end) owns no
\* outstanding request: req_ids is empty, no router entry maps an id to it,
\* and the gateway holds none of its ids in an active set or a queue.
C4_TerminalOwnsNothing ==
    \A t \in Tasks :
        is_done(proc[t]) /\ ~Stopping(t)
        => /\ proc[t].req_ids = {}
           /\ \A reqId \in Ids : app.request_handlers[reqId] # t
           /\ HeldBy(t) = {}

\* C6: a request cancelled while it waited in a queue (by cancelMktData, also
\* through a Task's stop()) is in no queue afterwards, is never admitted or
\* forwarded to the service, and its cancellation sent the service nothing.
C6_CancelledWhileQueued ==
    \A reqId \in log.cancelledQueued \cup log.removed :
        /\ reqId \notin QueueIds(app.mkt_data_queue) \cup QueueIds(app.contract_queue)
        /\ reqId \notin app.active_mkt_requests \cup app.active_contract_requests
        /\ svc.forwarded[reqId] = 0
        /\ svc.cancelMktData[reqId] = 0
        /\ svc.cancelHistoricalData[reqId] = 0

\* C10: once a Task is ABORTED, FAILED, FAILED_* or TIMEOUT_*, no step makes
\* it COMPLETED and no step emits a recommendation record for it.
C10_CancelledNeverFinalized ==
    [][\A t \in Tasks :
           proc[t].status \in Cancelled
           => /\ proc'[t].status # "COMPLETED"
              /\ proc'[t].emitted = proc[t].emitted]_vars

\* ------------------------------------------------------------ fairness ----
\* The supervisor keeps running: it starts every Task, a tick that is due is
\* run and is followed by its observation, and time passes from tick to tick
\* until it is past the overall timeout.  The callback thread finishes the
\* handler it is in.  (A due tick and a pending block are always enabled, so
\* the two conditions on them are stated on the state they leave.)
SupervisorRuns ==
    /\ WF_vars(MainStart)
    /\ WF_vars(MainObserve)
    /\ []<>(main.pc # "loop")
    /\ <>(main.pc = "done" \/ now > Horizon)
CallbackRuns == []<>(thr["cb"] = <<>>)

\* Nothing is assumed of the service: it may deliver any event or none.
SpecLive == Init /\ [][Next]_vars /\ SupervisorRuns /\ CallbackRuns

\* The requests the service still owes an event: an open lookup or history
\* request its end-of-data, an open quote subscription with a handler its
\* tick.
Pending ==
    {reqId \in Ids : /\ svc.state[reqId] = "open"
                     /\ \/ svc.req[reqId] # "reqMktData"
                        \/ /\ svc.delivered[reqId] < MaxTicks
                           /\ app.request_handlers[reqId] # NoTask}

\* The service delivers: while the program runs, it does not leave a request
\* unanswered forever.
ServiceDelivers == []<>(main.pc = "done" \/ Pending = {})

SpecLiveService == SpecLive /\ ServiceDelivers

\* The ids the gateway holds, active or queued.
Held ==
    app.active_mkt_requests \cup app.active_contract_requests
        \cup QueueIds(app.mkt_data_queue) \cup QueueIds(app.contract_queue)

\* C8: with the supervisor ticking and the service delivering, a request the
\* gateway holds (queued or active) does not stay held for as long as the
\* program runs: it is admitted and later leaves the active set, or it is
\* removed from its queue.
C8_NoRequestHeldForever ==
    \A reqId \in Ids : (reqId \in Held) ~> (reqId \notin Held \/ main.pc = "done")

\* C9: with the supervisor ticking and time advancing, whatever the service
\* delivers, every Task becomes terminal and the monitoring loop finds no
\* active Task and ends.
C9_SupervisorTerminates ==
    <>(main.pc = "done" /\ \A t \in Tasks : is_done(proc[t]))

\* ------------------------------------------------ screening (abort) ----
\* C11: once a Task is ABORTED by the screening rule, no request it drew is
\* forwarded to the service any more, neither a new one nor one that waited
\* in a gateway queue when the Task aborted.
C11_AbortedForwardsNothing ==
    [][\A reqId \in Ids :
           /\ log.owner[reqId] # NoTask
           /\ proc[log.owner[reqId]].status = "ABORTED"
           => svc.forwarded'[reqId] = svc.forwarded[reqId]]_vars

\* ------------------------------------------------------------- lock ----
\* C13: self.lock is never held while a Task callback (a handler method or an
\* on_sent callback) is invoked, nor while a request or a cancellation is
\* forwarded to the service.
C13_NothingCalledUnderLock ==
    log.under_lock = {}

\* ------------------------------------------------ the snapshot alone ----
\* PriceData driven by every update a callback can make on it: the stock
\* snapshot of a Task (price_data, type STK) and the snapshot of one option
\* leg (option_price_data[LegKey], type OPT).
LegKey == "55C"
\* TickTypeEnum.toStr(tickType) and the value of a tick
TickFieldInputs == {"LAST", "BID", "ASK"}
TickValueInputs == {2, 4}
\* tickOptionComputation: the service sends None for a value it has not
\* computed.
ComputationInputs ==
    {Computation(0, 0, 0, 0, 0, 6),
     Computation(None, 0, 0, 0, 0, None),
     Computation(None, None, None, None, None, None)}

\* handle_tick, "1. Stock Price": self.price_data.update(value, field)
StockTick(t) ==
    /\ \E field \in TickFieldInputs, value \in TickValueInputs :
           proc' = [proc EXCEPT ![t].price_data = update(@, value, field)]
    /\ UNCHANGED <<app, svc, log, thr, main, now>>

\* tick, "Fallback for stock price": self.price_data.update(last_close, "LAST")
FallbackClose(t) ==
    /\ \E close \in BarCloseInputs :
           proc' = [proc EXCEPT ![t].price_data = update(@, close, "LAST")]
    /\ UNCHANGED <<app, svc, log, thr, main, now>>

\* handle_tick, "2. Option Price"
OptionTick(t) ==
    /\ \E field \in TickFieldInputs, value \in TickValueInputs :
           proc' = [proc EXCEPT ![t].option_price_data[LegKey] =
                       [present |-> TRUE, data |-> update(@.data, value, field)]]
    /\ UNCHANGED <<app, svc, log, thr, main, now>>

\* on_tick_option_computation
OptionComputation(t) ==
    /\ \E c \in ComputationInputs :
           proc' = [proc EXCEPT ![t].option_price_data[LegKey] =
                       [present |-> TRUE, data |-> option_computation(@.data, c)]]
    /\ UNCHANGED <<app, svc, log, thr, main, now>>

NextPriceData ==
    \E t \in Tasks :
        \/ StockTick(t)
        \/ FallbackClose(t)
        \/ OptionTick(t)
        \/ OptionComputation(t)

SpecPriceData == Init /\ [][NextPriceData]_vars

\* The snapshots of a Task with their security types.
Snapshots(t) ==
    {[data |-> proc[t].price_data, security_type |-> "STK"],
     [data |-> proc[t].option_price_data[LegKey].data, security_type |-> "OPT"]}

\* C14: get_instrument_value is the mark price whenever it is non-null; else
\* the midpoint of bid and ask when both are non-null; else the last trade
\* price when it is non-null; else None (and not zero).
C14_InstrumentValueByPriority ==
    \A t \in Tasks : \A s \in Snapshots(t) :
        LET d == s.data
            v == get_instrument_value(d)
            both == d["BID"] # None /\ d["ASK"] # None
        IN  /\ d["MARK_PRICE"] # None => v = d["MARK_PRICE"]
            /\ d["MARK_PRICE"] = None /\ both => 2 * v = d["BID"] + d["ASK"]
            /\ d["MARK_PRICE"] = None /\ ~both /\ d["LAST"] # None => v = d["LAST"]
            /\ d["MARK_PRICE"] = None /\ ~both /\ d["LAST"] = None => v = None /\ v # 0

\* C14 witness: mark, bid, ask and last are all observed, pairwise different
\* from the midpoint, and the value is the mark.
C14_MarkOverMidpointAndLast ==
    \E t \in Tasks :
        LET d == proc[t].option_price_data[LegKey].data IN
        /\ d["MARK_PRICE"] = 6 /\ d["BID"] = 2 /\ d["ASK"] = 4 /\ d["LAST"] = 4
        /\ get_instrument_value(d) = 6

\* C15: once a snapshot is complete it stays complete under every update a
\* callback makes on it (tick, option computation, history fallback).
C15_CompleteStaysComplete ==
    [][\A t \in Tasks :
           /\ is_complete(proc[t].option_price_data[LegKey].data, "OPT")
                  => is_complete(proc'[t].option_price_data[LegKey].data, "OPT")
           /\ is_complete(proc[t].price_data, "STK")
                  => is_complete(proc'[t].price_data, "STK")]_vars

\* C16: is_complete is true exactly when every field of the required set of
\* the snapshot's type is non-null: LAST, ASK, BID for a stock; LAST, ASK, BID,
\* DELTA, GAMMA, VEGA, IV for an option.
C16_CompleteIffRequiredObserved ==
    \A t \in Tasks : \A s \in Snapshots(t) :
        LET required == IF s.security_type = "STK" THEN {"LAST", "ASK", "BID"}
                        ELSE {"LAST", "ASK", "BID", "DELTA", "GAMMA", "VEGA", "IV"}
        IN  is_complete(s.data, s.security_type)
                <=> \A f \in required : s.data[f] # None

\* C16 witness: the stock snapshot is complete; the option snapshot has the
\* stock's three fields and is incomplete for a missing greek.
C16_StockCompleteOptionNot ==
    \E t \in Tasks :
        LET d == proc[t].option_price_data[LegKey].data IN
        /\ is_complete(proc[t].price_data, "STK")
        /\ \A f \in {"LAST", "ASK", "BID", "GAMMA", "VEGA", "IV"} : d[f] # None
        /\ d["DELTA"] = None
        /\ ~is_complete(d, "OPT")

\* ------------------------------------------------ the dispatch window ----
\* EarningsApp.tickPrice in its two parts: the lookup of the handler under
\* the lock, and, after the lock is released, the call of the handler that
\* was found.  The tick thread can run between the two.
LookupTickPrice(reqId) ==
    /\ Open(reqId, "reqMktData")
    /\ svc.contract[reqId] = "STK"
    /\ svc.delivered[reqId] < MaxTicks
    /\ \E input \in StockTickInputs :
           LET W == Sent(Store, reqId)
               t == Handler(W, reqId)
           IN  Deliver(W, IF t = NoTask THEN R(W, <<>>)
                          ELSE R(W, <<F("on_tick_price", t, reqId, input[1], input[2])>>))

\* `if handler: handler.on_tick_price(reqId, tickType, price, attrib)`
OnTickPrice(th) ==
    /\ At(th, "on_tick_price")
    /\ LET f == Head(thr[th])
           r == handle_tick(CallOut(Store, "handler"), f.t, f.r, f.k, f.v)
       IN  Proceed(th, r.W, r.frames \o Tail(thr[th]))
    /\ UNCHANGED now

NextDispatch ==
    \/ \E reqId \in Ids :
           \/ contractDetails(reqId)
           \/ contractDetailsEnd(reqId)
           \/ LookupTickPrice(reqId)
           \/ tickOptionComputation(reqId)
           \/ historicalData(reqId)
           \/ historicalDataEnd(reqId)
           \/ error(reqId)
    \/ \E th \in Threads : Blocks(th) \/ OnTickPrice(th)
    \/ MainStart
    \/ MainTick
    \/ MainObserve

SpecDispatch == Init /\ [][NextDispatch]_vars

\* C12: once unregister_handler(id) has returned, no handler method is called
\* for an event that carries the id, also when the dispatch of the event on
\* the callback thread runs concurrently with a stop() on the tick thread.
C12_NoCallAfterUnregister ==
    [][\A th \in Threads :
           At(th, "on_tick_price") /\ thr'[th] # thr[th]
           => app.request_handlers[Head(thr[th]).r] = Head(thr[th]).t]_vars

\* --------------------------------------------- the option analysis alone ----
\* The steps of the option analysis as functions of their inputs.  The states
\* they start from are built by running the program's handlers one after the
\* other, without interleaving, for the first symbol.
TheTask == 1
Only(op) == <<Call(op, TheTask)>>

\* main: p.start(); the identity lookup answers with one contract and ends.
Identified ==
    LET a == EarningsApp(MAX_CONCURRENT_MKT_DATA, MAX_CONCURRENT_CONTRACTS)
        W1 == start(Constructed(a), TheTask)
        lookup == W1.app.requestId
        W2 == do_on_contract_details_stock(W1, Only("on_contract_details_stock")).W
        W3 == do_on_contract_details_requests(W2, Only("on_contract_details_requests")).W
    IN  ReleaseContract([W3 EXCEPT !.svc.state[lookup] = "closed"], lookup)

\* contractDetails for every entry of the chain, in the order of arrival
RECURSIVE ChainDelivered(_, _)
ChainDelivered(W, keys) ==
    IF keys = <<>> THEN W
    ELSE ChainDelivered(on_contract_details(W, TheTask, Head(keys)).W, Tail(keys))

\* The chain is complete: by contractDetailsEnd, or, when no entry arrived,
\* by the chain timeout of the next tick.
ChainComplete(W) ==
    LET lookup == W.app.requestId IN
    IF W.proc[TheTask].options_chain # {}
    THEN do_on_contract_details_end_complete(
             ReleaseContract([W EXCEPT !.svc.state[lookup] = "closed"], lookup),
             Only("on_contract_details_end_complete")).W
    ELSE do_option_chain_timeout([W EXCEPT !.now = TimeStep],
                                 Only("option_chain_timeout")).W

\* The first tick of the stock quote passes the screening, and
\* start_expected_move_calc sets analyzing_options.
Priced(W, price) ==
    LET W1 == handle_tick(W, TheTask, W.proc[TheTask].stock_req_id, "LAST", price).W
        W2 == do_handle_tick_price(W1, Only("handle_tick_price")).W
        W3 == do_handle_tick_screen(W2, Only("handle_tick_screen")).W
    IN  do_start_expected_move_calc(W3, Only("start_expected_move_calc")).W

\* The Task in front of the try block of start_expected_move_calc.
AnalysisEntry(chain, price) ==
    Priced(ChainComplete(ChainDelivered(Identified, InOrder(chain))), price)

\* Instrument values that pass the screening rule.
SelectionPriceInputs == {42, 55, 58}

InitSelection ==
    \E chain \in SUBSET (ChainKeys \cup ExtraKeys), price \in SelectionPriceInputs :
        LET W == AnalysisEntry(chain, price) IN
        /\ app = W.app /\ proc = W.proc /\ svc = W.svc /\ log = W.log /\ now = W.now
        /\ thr = [th \in Threads |-> Only("start_expected_move_calc_select")]
        /\ main = [pc |-> "loop", i |-> 1, active_count |-> 0]

NextSelection ==
    \E th \in Threads :
        \/ StartExpectedMoveCalcSelect(th)
        \/ Stop(th)

SpecSelection == InitSelection /\ [][NextSelection]_vars

\* C18: when the analysis has started (the core legs are requested), the
\* at-the-money strike is a chain strike closest to the instrument value and
\* the middle one of three chain strikes closest to it, the wings are the
\* other two, and exactly four core legs are subscribed: the call and the put
\* at the money, the call at the upper wing and the put at the lower wing.
C18_AtmIsClosestStrike ==
    \A t \in Tasks :
        proc[t].waiting_for_core_options =>
        LET p == proc[t]
            v == get_instrument_value(p.price_data)
            strikes == {Strike(k) : k \in p.options_chain}
            d(s) == IF s < v THEN v - s ELSE s - v
            keys == p.target_option_keys
            atm == Strike(keys[1])
            up == Strike(keys[3])
            down == Strike(keys[4])
        IN  /\ Len(keys) = 4
            /\ Right(keys[1]) = "C" /\ Right(keys[2]) = "P" /\ Strike(keys[2]) = atm
            /\ Right(keys[3]) = "C" /\ Right(keys[4]) = "P"
            /\ \A s \in strikes : d(atm) <= d(s)
            /\ down < atm /\ atm < up
            /\ \A s \in strikes \ {down, atm, up} :
                   d(down) <= d(s) /\ d(up) <= d(s)
            /\ Cardinality(p.core_option_reqs) = 4
            /\ {p.reqid_to_symbol[reqId] : reqId \in p.core_option_reqs} = Range(keys)
            /\ \A reqId \in p.core_option_reqs :
                   svc.forwarded[reqId] = 1 \/ reqId \in QueueIds(app.mkt_data_queue)

\* --- the expected move
\* What the service has sent for a core leg when the tick looks at it: no
\* event, an option computation without a price, or one with a price.
LegPriceInputs == {2, 4, 6}
LegInputs ==
    {[sent |-> FALSE, optPrice |-> None]}
        \cup {[sent |-> TRUE, optPrice |-> v] : v \in LegPriceInputs \cup {None}}

\* The Task with its four core legs requested.
CorePhase ==
    do_start_expected_move_calc_select(
        AnalysisEntry(ChainKeys, 55), Only("start_expected_move_calc_select")).W

\* tickOptionComputation for the legs, in the order of target_option_keys
RECURSIVE LegsDelivered(_, _, _)
LegsDelivered(W, legs, i) ==
    IF i > Len(legs) THEN W
    ELSE LET p == W.proc[TheTask]
             reqId == CHOOSE r \in p.core_option_reqs :
                          p.reqid_to_symbol[r] = p.target_option_keys[i]
             W1 == IF legs[i].sent
                   THEN on_tick_option_computation(W, TheTask, reqId, legs[i].optPrice).W
                   ELSE W
         IN  LegsDelivered(W1, legs, i + 1)

InitExpectedMove ==
    \E legs \in [1 .. 4 -> LegInputs] :
        LET W == LegsDelivered(CorePhase, legs, 1) IN
        /\ app = W.app /\ proc = W.proc /\ svc = W.svc /\ log = W.log /\ now = W.now
        /\ thr = [th \in Threads |-> <<>>]
        /\ main = [pc |-> "loop", i |-> 1, active_count |-> 0]

NextExpectedMove ==
    \/ MainTick
    \/ MainObserve

SpecExpectedMove == InitExpectedMove /\ [][NextExpectedMove]_vars

\* C17: expected_move is assigned only in a state in which each of the four
\* core legs has a usable (non-None) instrument value, and the value assigned
\* is the sum of the four values divided by 2.
C17_ExpectedMoveIsHalfTheSum ==
    [][\A t \in Tasks :
           proc'[t].expected_move # proc[t].expected_move =>
           LET p == proc[t]
               keys == p.target_option_keys
               val(i) == get_instrument_value(p.option_price_data[keys[i]].data)
           IN  /\ Len(keys) = 4
               /\ \A i \in 1 .. 4 :
                      p.option_price_data[keys[i]].present /\ val(i) # None
               /\ 2 * proc'[t].expected_move = val(1) + val(2) + val(3) + val(4)]_vars

\* C17 witness: the four legs are worth 6, 4, 2 and 2 and the expected move
\* is 7.
C17_MoveOfFourLegs ==
    \E t \in Tasks :
        LET p == proc[t]
            keys == p.target_option_keys
        IN  /\ Len(keys) = 4
            /\ [i \in 1 .. 4 |->
                   get_instrument_value(p.option_price_data[keys[i]].data)]
                   = <<6, 4, 2, 2>>
            /\ p.expected_move = 7

\* C19: a tick that finds the chain lookup sent more than CHAIN_TIMEOUT ago
\* and not ended, on a Task in PROCESSING with a usable price, marks the chain
\* complete and starts the option analysis with the entries collected so far;
\* with no entry collected the Task fails with FAILED_NO_OPTS, and only then.
C19_ChainTimeoutStartsAnalysis ==
    [][main.pc = "loop" /\ main'.pc = "observe" =>
           LET t == main.i
               p == proc[t]
               q == proc'[t]
           IN  /\ ~p.failed
               /\ p.status = "PROCESSING"
               /\ ~p.option_chain_complete
               /\ p.option_chain_req_time # None
               /\ now' - p.option_chain_req_time > CHAIN_TIMEOUT
               /\ now' - p.start_time <= OVERALL_TIMEOUT
               /\ p.price_received
               /\ get_instrument_value(p.price_data) # None
               => /\ q.option_chain_complete
                  /\ q.analyzing_options
                  /\ q.options_chain = p.options_chain
                  /\ Range(q.target_option_keys) \subseteq p.options_chain
                  /\ p.options_chain = {} <=> q.status = "FAILED_NO_OPTS"]_vars

\* C19 witness: after a tick past the chain timeout the analysis has started
\* on a partial chain while the chain lookup is still open at the service.
C19_AnalysisOnPartialChain ==
    \E t \in Tasks :
        LET p == proc[t] IN
        /\ main.pc = "observe" /\ main.i = t
        /\ p.option_chain_complete /\ p.analyzing_options
        /\ p.waiting_for_core_options
        /\ p.options_chain # {} /\ p.options_chain # ChainKeys
        /\ p.option_chain_req_time # None
        /\ now - p.option_chain_req_time > CHAIN_TIMEOUT
        /\ \E reqId \in p.req_ids :
               /\ svc.req[reqId] = "reqContractDetails"
               /\ svc.state[reqId] = "open"

\* ------------------------------------ the program with a full quote pool ----
\* The program with a quote pool that is full once the core legs are
\* subscribed: every range leg is queued behind them.
InitSaturated == Started(EarningsApp(MKT_DATA_OF_CORE_PHASE, MAX_CONCURRENT_CONTRACTS))

SpecSaturated == InitSaturated /\ [][Next]_vars

\* C20: a tick on a Task in the range phase (PROCESSING, not failed, before
\* the overall timeout) leaves the phase when every requested range leg has a
\* usable value or when more than RANGE_TIMEOUT has elapsed since the Task
\* was seen in the phase; the Task does not fail, and with the history
\* complete it is COMPLETED.  A tick that computes the expected move and
\* requests no range leg leaves the phase at once.
C20_RangePhaseEnds ==
    [][main.pc = "loop" /\ main'.pc = "observe" =>
           LET t == main.i
               p == proc[t]
               q == proc'[t]
               usable(reqId) ==
                   LET key == p.reqid_to_symbol[reqId] IN
                   /\ p.option_price_data[key].present
                   /\ get_instrument_value(p.option_price_data[key].data) # None
           IN  /\ ~p.failed /\ p.status = "PROCESSING"
               /\ now' - p.start_time <= OVERALL_TIMEOUT
               => /\ /\ p.waiting_for_range_options
                     /\ \/ \A reqId \in p.range_option_reqs : usable(reqId)
                        \/ now' - now > RANGE_TIMEOUT
                     => /\ ~q.waiting_for_range_options
                        /\ ~q.failed
                        /\ p.history_received => q.status = "COMPLETED"
                  /\ /\ p.waiting_for_core_options
                     /\ q.expected_move # p.expected_move
                     /\ q.range_option_reqs = {}
                     => ~q.waiting_for_range_options]_vars

\* ------------------------------------------------ the lookups answered ----
\* The program while the service answers the two lookups of a Task and
\* nothing else, with a contract pool that holds both lookups at once: the
\* entries of the chain may arrive before the end of the identity lookup.
InitLookups == Started(EarningsApp(MAX_CONCURRENT_MKT_DATA, CONTRACTS_OF_ONE_TASK))

NextLookups ==
    \/ \E reqId \in Ids :
           \/ contractDetails(reqId)
           \/ contractDetailsEnd(reqId)
    \/ \E th \in Threads :
           \/ OnContractDetailsStock(th)
           \/ OnContractDetailsRequests(th)
           \/ OnContractDetailsEndComplete(th)
    \/ MainStart
    \/ MainTick
    \/ MainObserve

SpecLookups == InitLookups /\ [][NextLookups]_vars

\* The chain lookups a Task has drawn.
ChainLookups(t) ==
    {reqId \in Ids : /\ log.owner[reqId] = t
                     /\ svc.req[reqId] = "reqContractDetails"
                     /\ svc.contract[reqId] = "OPT"}

\* C21: option_chain_complete is never reset, and it is set only after the
\* service has ended the Task's chain lookup, or by a tick more than
\* CHAIN_TIMEOUT after the chain lookup was sent; the end of the identity
\* lookup does not set it.
C21_ChainCompleteByItsOwnEnd ==
    [][\A t \in Tasks :
           /\ proc[t].option_chain_complete => proc'[t].option_chain_complete
           /\ ~proc[t].option_chain_complete /\ proc'[t].option_chain_complete
              => \/ \E reqId \in ChainLookups(t) : svc.state[reqId] = "closed"
                 \/ /\ main.pc = "loop" /\ main'.pc = "observe" /\ main.i = t
                    /\ proc[t].option_chain_req_time # None
                    /\ now' - proc[t].option_chain_req_time > CHAIN_TIMEOUT]_vars

\* ------------------------------------------- the tick thread preempted ----
\* The program from the moment the Task has sent its three requests, with the
\* tick thread preempted like the callback thread: between a test of p.tick()
\* and the block the test guards, and between two blocks.  The service sends
\* the chain and the stock quote.
InitPreempted ==
    LET W == Identified IN
    /\ app = W.app /\ proc = W.proc /\ svc = W.svc /\ log = W.log /\ now = W.now
    /\ thr = [th \in Threads |-> <<>>]
    /\ main = [pc |-> "loop", i |-> 1, active_count |-> 0, stack |-> <<>>]

\* monitoring loop: p.tick() is entered
TickEnter ==
    /\ main.pc = "loop"
    /\ \E clock \in Clock : now' = clock
    /\ main' = [main EXCEPT !.pc = "tick", !.stack = <<Call("tick", main.i)>>]
    /\ UNCHANGED <<app, proc, svc, log, thr>>

\* the next test of the tick reads the Task
TickTest ==
    /\ main.pc = "tick"
    /\ main.stack # <<>>
    /\ Head(main.stack).op \in Tests
    /\ main' = [main EXCEPT !.stack = Resolve(Store, Head(@)) \o Tail(@)]
    /\ UNCHANGED <<app, proc, svc, log, thr, now>>

\* the block a test of the tick has let through
TickBlock ==
    /\ main.pc = "tick"
    /\ main.stack # <<>>
    /\ Head(main.stack).op \notin Tests
    /\ LET r == Exec(Store, main.stack) IN
       /\ r.W.app.requestId <= MaxId
       /\ Commit(r.W)
       /\ main' = [main EXCEPT !.stack = r.frames]
    /\ UNCHANGED <<thr, now>>

\* p.tick() returns
TickReturn ==
    /\ main.pc = "tick"
    /\ main.stack = <<>>
    /\ main' = [main EXCEPT !.pc = "observe"]
    /\ UNCHANGED <<app, proc, svc, log, thr, now>>

\* monitoring loop: `if not p.is_done: active_count += 1`
TickObserve ==
    /\ main.pc = "observe"
    /\ LET a == AfterTick(proc[main.i]) IN
       main' = [pc |-> a.pc, i |-> a.i, active_count |-> a.active_count,
                stack |-> <<>>]
    /\ UNCHANGED <<app, proc, svc, log, thr, now>>

NextPreempted ==
    \/ \E reqId \in Ids :
           \/ contractDetails(reqId)
           \/ contractDetailsEnd(reqId)
           \/ tickPrice(reqId)
    \/ \E th \in Threads :
           \/ OnContractDetailsEndComplete(th)
           \/ HandleTickPrice(th)
           \/ HandleTickScreen(th)
           \/ StartExpectedMoveCalc(th)
           \/ StartExpectedMoveCalcSelect(th)
           \/ Stop(th)
    \/ TickEnter
    \/ TickTest
    \/ TickBlock
    \/ TickReturn
    \/ TickObserve

SpecPreempted == InitPreempted /\ [][NextPreempted]_vars

\* C22: core legs are subscribed (the option analysis starts) only by a step
\* that leaves the price usable and the chain complete, and only once: a
\* Task that has subscribed core legs subscribes no further ones.
C22_AnalysisStartsOnce ==
    [][\A t \in Tasks :
           proc'[t].core_option_reqs # proc[t].core_option_reqs
           => /\ proc[t].core_option_reqs = {}
              /\ proc'[t].price_received
              /\ get_instrument_value(proc'[t].price_data) # None
              /\ proc'[t].option_chain_complete]_vars

\* -------------------------------------------------------- completion ----
\* C23: a step that makes a Task COMPLETED leaves it with the history
\* complete, the analysis started and neither the core nor the range phase
\* pending, and emits one recommendation record; once its stop() has run, the
\* COMPLETED Task owns no request: req_ids is empty, the router has no entry
\* for it and the gateway holds none of its ids.
C23_CompletedWhenAllDone ==
    [][\A t \in Tasks :
           /\ proc[t].status # "COMPLETED" /\ proc'[t].status = "COMPLETED"
              => /\ proc'[t].history_received
                 /\ proc'[t].analyzing_options
                 /\ ~proc'[t].waiting_for_core_options
                 /\ ~proc'[t].waiting_for_range_options
                 /\ proc'[t].emitted = proc[t].emitted + 1
           /\ proc'[t].status = "COMPLETED" /\ ~Stopping(t)'
              => /\ proc'[t].req_ids = {}
                 /\ \A reqId \in Ids : app'.request_handlers[reqId] # t
                 /\ HeldBy(t)' = {}]_vars

\* --------------------------------------------------------- screening ----
\* LAST, ASK, BID or the instrument value is present and below the floor.
BelowFloor(data) ==
    \/ \E f \in {"LAST", "ASK", "BID"} : data[f] # None /\ data[f] < PRICE_FLOOR
    \/ /\ get_instrument_value(data) # None
       /\ get_instrument_value(data) < PRICE_FLOOR

\* C24: a Task becomes ABORTED only with a price below the floor; the
\* screening that follows the first usable value (the handler's screening
\* block, or the tick that takes the price from the history) makes it ABORTED
\* whenever a price is below the floor; and once its stop() has run, the
\* ABORTED Task owns no request: req_ids is empty, the router has no entry
\* for it and the gateway holds none of its ids.
C24_ScreeningAbortsAndReleases ==
    [][\A t \in Tasks :
           LET p == proc[t]
               q == proc'[t]
           IN  /\ p.status # "ABORTED" /\ q.status = "ABORTED"
                  => BelowFloor(q.price_data)
               /\ /\ \E th \in Threads :
                         /\ At(th, "handle_tick_screen") /\ Head(thr[th]).t = t
                         /\ thr'[th] # thr[th]
                  /\ BelowFloor(p.price_data)
                  => q.status = "ABORTED"
               /\ /\ main.pc = "loop" /\ main'.pc = "observe" /\ main.i = t
                  /\ ~p.price_received /\ q.price_received
                  /\ BelowFloor(q.price_data)
                  => q.status = "ABORTED"
               /\ q.status = "ABORTED" /\ ~Stopping(t)'
                  => /\ q.req_ids = {}
                     /\ \A reqId \in Ids : app'.request_handlers[reqId] # t
                     /\ HeldBy(t)' = {}]_vars

\* ---------------------------------------------------- overall timeout ----
\* C25: a tick on a Task that is not done, more than OVERALL_TIMEOUT after
\* the Task's start_time, makes it TIMEOUT_OVERALL and leaves it without
\* requests (req_ids empty, no router entry, nothing of it in the gateway);
\* no step makes a Task that is done TIMEOUT_OVERALL.
C25_OverallTimeoutEndsTask ==
    [][\A t \in Tasks :
           LET p == proc[t]
               q == proc'[t]
           IN  /\ /\ main.pc = "loop" /\ main'.pc = "observe" /\ main.i = t
                  /\ ~is_done(p)
                  /\ now' - p.start_time > OVERALL_TIMEOUT
                  => /\ q.status = "TIMEOUT_OVERALL"
                     /\ q.req_ids = {}
                     /\ \A reqId \in Ids : app'.request_handlers[reqId] # t
                     /\ HeldBy(t)' = {}
               /\ is_done(p) /\ q.status = "TIMEOUT_OVERALL"
                  => p.status = "TIMEOUT_OVERALL"]_vars

\* ------------------------------------------------------- core timeout ----
\* C26: a tick on a Task that has been waiting for its core legs for more
\* than CORE_TIMEOUT (PROCESSING, not failed, before the overall timeout),
\* with a core leg still without a usable value, makes it TIMEOUT_CORE; the
\* Task does not enter the range phase and is left without requests
\* (req_ids empty, no router entry, nothing of it in the gateway).
C26_CoreTimeoutEndsTask ==
    [][\A t \in Tasks :
           LET p == proc[t]
               q == proc'[t]
               usable(key) ==
                   /\ p.option_price_data[key].present
                   /\ get_instrument_value(p.option_price_data[key].data) # None
           IN  /\ main.pc = "loop" /\ main'.pc = "observe" /\ main.i = t
               /\ ~p.failed /\ p.status = "PROCESSING"
               /\ p.waiting_for_core_options
               /\ now' - p.start_time <= OVERALL_TIMEOUT
               /\ now' - now > CORE_TIMEOUT
               /\ \E i \in 1 .. Len(p.target_option_keys) :
                      ~usable(p.target_option_keys[i])
               => /\ q.status = "TIMEOUT_CORE"
                  /\ ~q.waiting_for_range_options
                  /\ q.range_option_reqs = {}
                  /\ q.req_ids = {}
                  /\ \A reqId \in Ids : app'.request_handlers[reqId] # t
                  /\ HeldBy(t)' = {}]_vars

\* ------------------------------------------------------ request errors ----
\* The identity lookup of a Task: its reqContractDetails for the stock.
IdentityLookup(reqId) ==
    /\ svc.req[reqId] = "reqContractDetails"
    /\ svc.contract[reqId] = "STK"

\* C27: a request error for the identity lookup of a Task that is waiting for
\* it (GETTING_STOCK_CONTRACT) takes the callback thread into the failure
\* branch of on_error, which sets FAILED; a request error for any other
\* request of a Task (stock quote, history, chain lookup, option quote)
\* leaves every Task's status as it is and starts nothing.
C27_ErrorOnLookupFails ==
    [][/\ svc.errors' # svc.errors
          => \A reqId \in Ids :
                 LET t == log.owner[reqId] IN
                 svc.state[reqId] = "open" /\ svc.state'[reqId] = "closed"
                 => /\ t # NoTask
                    /\ IF IdentityLookup(reqId)
                          /\ proc[t].status = "GETTING_STOCK_CONTRACT"
                       THEN thr'["cb"] = <<Call("on_error_failed", t)>>
                       ELSE /\ thr'["cb"] = <<>>
                            /\ \A u \in Tasks : proc'[u].status = proc[u].status
       /\ At("cb", "on_error_failed") /\ thr'["cb"] # thr["cb"]
          => /\ proc'[Head(thr["cb"]).t].status = "FAILED"
             /\ proc'[Head(thr["cb"]).t].failed]_vars

\* A Task has FAILED on the error of its identity lookup, and another
\* request error is impossible (MaxErrors is spent).
C27_FailedOnLookupError ==
    \E reqId \in Ids :
        /\ IdentityLookup(reqId)
        /\ svc.state[reqId] = "closed"
        /\ svc.delivered[reqId] = 0
        /\ svc.errors = 1
        /\ log.owner[reqId] # NoTask
        /\ proc[log.owner[reqId]].status = "FAILED"

\* ------------------------------------------------------------- notices ----
\* The program while the service answers the lookups and sends notices, and
\* no request error: every error event carries one of AdvisoryCodeInputs.
notice(reqId) == errorOf(reqId, AdvisoryCodeInputs)

NextNotices ==
    \/ \E reqId \in Ids :
           \/ notice(reqId)
           \/ contractDetails(reqId)
           \/ contractDetailsEnd(reqId)
    \/ \E th \in Threads :
           \/ OnContractDetailsStock(th)
           \/ OnContractDetailsRequests(th)
           \/ OnContractDetailsEndComplete(th)
           \/ OnErrorFailed(th)
    \/ MainStart
    \/ MainTick
    \/ MainObserve

SpecNotices == Init /\ [][NextNotices]_vars

\* C28: when the only error events are notices (2104, 2106, 2158, 366), no
\* Task is ever FAILED, the status that only on_error sets.
C28_NoticesNeverFail ==
    \A t \in Tasks : proc[t].status # "FAILED"

\* ------------------------------------------------------- legs not found ----
\* C29: when the try block of start_expected_move_calc has run on a chain
\* that is not empty and has located no core legs, the Task is
\* FAILED_MISSING_OPT, has requested no core leg, and after its stop() is
\* left without requests.
C29_MissingLegFails ==
    \A t \in Tasks :
        LET p == proc[t] IN
        /\ p.analyzing_options
        /\ \A th \in Threads : ~At(th, "start_expected_move_calc_select")
        /\ p.options_chain # {}
        /\ ~p.waiting_for_core_options
        => /\ p.status = "FAILED_MISSING_OPT"
           /\ p.core_option_reqs = {}
           /\ ~Stopping(t) => p.req_ids = {} /\ HeldBy(t) = {}

\* ------------------------------------------------------ the range window ----
\* The Task at the end of its core phase, for every chain on which the
\* selection finds its four legs, with legs worth little or much: the band
\* of two expected moves around the price may hold every strike of the
\* chain, some, or none.
RangeLegPriceInputs == {1, 6}

InitRange ==
    \E chain \in SUBSET (ChainKeys \cup ExtraKeys), price \in SelectionPriceInputs :
        \E legs \in [1 .. 4 -> {[sent |-> TRUE, optPrice |-> v] : v \in RangeLegPriceInputs}] :
            /\ Selection(chain, price).status = "ok"
            /\ LET W == LegsDelivered(
                            do_start_expected_move_calc_select(
                                AnalysisEntry(chain, price),
                                Only("start_expected_move_calc_select")).W,
                            legs, 1)
               IN  /\ app = W.app /\ proc = W.proc /\ svc = W.svc
                   /\ log = W.log /\ now = W.now
            /\ thr = [th \in Threads |-> <<>>]
            /\ main = [pc |-> "loop", i |-> 1, active_count |-> 0]

NextRange ==
    \/ MainTick
    \/ MainObserve

SpecRange == InitRange /\ [][NextRange]_vars

\* C30: the step that sets the strike window subscribes, as range legs, to
\* the chain entries outside the four core legs whose strike is in the band
\* [price - 2 * expected_move, price + 2 * expected_move], or one of the two
\* chain strikes next below it, or one of the two next above it; each of them
\* once, and no leg that is already a core leg.
C30_RangeLegsAreTheWindow ==
    [][\A t \in Tasks :
           proc'[t].filter_min_strike # proc[t].filter_min_strike =>
           LET p == proc[t]
               q == proc'[t]
               price == get_instrument_value(p.price_data)
               down == price - 2 * q.expected_move
               up == price + 2 * q.expected_move
               strikes == {Strike(k) : k \in p.options_chain}
               window(s) ==
                   \/ down <= s /\ s <= up
                   \/ s < down /\ Cardinality({x \in strikes : s < x /\ x < down}) <= 1
                   \/ s > up /\ Cardinality({x \in strikes : up < x /\ x < s}) <= 1
               core == {p.target_option_keys[i] : i \in 1 .. Len(p.target_option_keys)}
               legs == {k \in p.options_chain : window(Strike(k))} \ core
           IN  /\ {q.reqid_to_symbol[reqId] : reqId \in q.range_option_reqs} = legs
               /\ Cardinality(q.range_option_reqs) = Cardinality(legs)
               /\ \A r1, r2 \in q.core_option_reqs \cup q.range_option_reqs :
                      r1 # r2 => q.reqid_to_symbol[r1] # q.reqid_to_symbol[r2]]_vars

\* ------------------------------------------------------ price fallback ----
\* C31: a tick more than PRICE_FALLBACK_DELAY (and not more than
\* OVERALL_TIMEOUT) after start_time on a Task in PROCESSING, not failed,
\* without a usable price and with a completed history of at least one bar,
\* makes the last close the Task's price; a close below the floor makes the
\* Task ABORTED; a close that passes the screening leaves it not ABORTED and,
\* if the chain was complete, with the option analysis started.
C31_FallbackTakesLastClose ==
    [][\A t \in Tasks :
           LET p == proc[t]
               q == proc'[t]
               close == p.historic_data[Len(p.historic_data)]
           IN  /\ main.pc = "loop" /\ main'.pc = "observe" /\ main.i = t
               /\ p.status = "PROCESSING" /\ ~p.failed
               /\ get_instrument_value(p.price_data) = None
               /\ p.history_received
               /\ p.historic_data # <<>>
               /\ now' - p.start_time > PRICE_FALLBACK_DELAY
               /\ now' - p.start_time <= OVERALL_TIMEOUT
               => /\ q.price_received
                  /\ q.price_data["LAST"] = close
                  /\ get_instrument_value(q.price_data) = close
                  /\ close < PRICE_FLOOR => q.status = "ABORTED"
                  /\ ~BelowFloor(q.price_data)
                     => /\ q.status # "ABORTED"
                        /\ p.option_chain_complete => q.analyzing_options]_vars

\* C31 witness: the service has sent no tick for the stock quote, and the
\* Task has the last close of its history as its price and has started the
\* option analysis.
C31_AnalysisOnTheLastClose ==
    \E t \in Tasks :
        LET p == proc[t] IN
        /\ p.stock_req_id # 0
        /\ svc.delivered[p.stock_req_id] = 0
        /\ p.historic_data # <<>>
        /\ p.price_received
        /\ get_instrument_value(p.price_data) = p.historic_data[Len(p.historic_data)]
        /\ p.analyzing_options

\* ---------------------------------------------------- several matches ----
\* The program while the service answers the lookups, for a symbol that
\* matches more than one contract: the identity lookup gets several
\* contractDetails events before its end.
AmbiguousMatches == 2

contractDetailsMatch(reqId) == contractDetailsOf(reqId, AmbiguousMatches)

NextMatches ==
    \/ \E reqId \in Ids :
           \/ contractDetailsMatch(reqId)
           \/ contractDetailsEnd(reqId)
    \/ \E th \in Threads :
           \/ OnContractDetailsStock(th)
           \/ OnContractDetailsRequests(th)
           \/ OnContractDetailsEndComplete(th)
    \/ MainStart
    \/ MainTick
    \/ MainObserve

SpecMatches == Init /\ [][NextMatches]_vars

\* The callback thread runs block `op` of Task t in this step.
Runs(op, t) ==
    /\ At("cb", op)
    /\ Head(thr["cb"]).t = t
    /\ thr'["cb"] # thr["cb"]

\* C32: a contractDetails event for the identity lookup of a Task in
\* GETTING_STOCK_CONTRACT takes the handler into its first branch, which
\* stores the contract and sets PROCESSING and then, in one block, draws
\* three ids and submits one quote subscription for the stock, one history
\* request and one chain lookup (each forwarded to the service or waiting in
\* its pool's queue); the block runs only on a Task that has made none of
\* these requests, and an event that finds another status starts nothing.
C32_LookupSuccessStartsThreeRequests ==
    [][\A t \in Tasks :
           LET p == proc[t]
               q == proc'[t]
               new == q.req_ids \ p.req_ids
               waits(reqId, queue) == reqId \in QueueIds(queue)
           IN  /\ \A reqId \in Ids :
                      /\ IdentityLookup(reqId) /\ log.owner[reqId] = t
                      /\ svc.delivered'[reqId] = svc.delivered[reqId] + 1
                      => thr'["cb"] = IF p.status = "GETTING_STOCK_CONTRACT"
                                      THEN <<Call("on_contract_details_stock", t)>>
                                      ELSE <<>>
               /\ Runs("on_contract_details_stock", t)
                  => /\ q.stock_contract_received
                     /\ q.status = "PROCESSING"
                     /\ thr'["cb"] = <<Call("on_contract_details_requests", t)>>
               /\ Runs("on_contract_details_requests", t)
                  => /\ p.stock_req_id = 0
                     /\ \A reqId \in p.req_ids : IdentityLookup(reqId)
                     /\ p.req_ids \subseteq q.req_ids
                     /\ \E a, b, c \in new :
                            /\ new = {a, b, c} /\ Cardinality(new) = 3
                            /\ q.stock_req_id = a
                            /\ \/ /\ svc'.state[a] = "open"
                                  /\ svc'.req[a] = "reqMktData"
                                  /\ svc'.contract[a] = "STK"
                               \/ waits(a, app'.mkt_data_queue)
                            /\ svc'.state[b] = "open"
                            /\ svc'.req[b] = "reqHistoricalData"
                            /\ \/ /\ svc'.state[c] = "open"
                                  /\ svc'.req[c] = "reqContractDetails"
                                  /\ svc'.contract[c] = "OPT"
                               \/ waits(c, app'.contract_queue)]_vars

\* C32 witness: the identity lookup has got two contractDetails events and
\* the Task has drawn four ids: the lookup and the three requests.
C32_TwoMatchesOneStart ==
    \E t \in Tasks : \E reqId \in proc[t].req_ids :
        /\ IdentityLookup(reqId)
        /\ svc.delivered[reqId] = AmbiguousMatches
        /\ proc[t].status = "PROCESSING"
        /\ proc[t].stock_req_id # 0
        /\ Cardinality({i \in Ids : log.owner[i] = t}) = 4
        /\ thr["cb"] = <<>>

\* ------------------------------------------------------- save_results ----
\* save_results with the two boundaries exchanged
save_results_exchanged(price_data, expected_move, average_percent_move) ==
    LET current_price == get_instrument_value(price_data)
        usual_up_spike == current_price + (average_percent_move * current_price) \div 100
        usual_down_spike == current_price - (average_percent_move * current_price) \div 100
        double_expected_move_up == current_price + 2 * expected_move
        double_expected_move_down == current_price - 2 * expected_move
    IN  [upper_boundary |-> Min2(double_expected_move_down, usual_down_spike),
         lower_boundary |-> Max2(double_expected_move_up, usual_up_spike)]

\* save_results: the two boundaries of the record.  The inputs below make
\* average_percent_move / 100 * current_price a whole number.
save_results(price_data, expected_move, average_percent_move) ==
    LET current_price == get_instrument_value(price_data)
        usual_up_spike == current_price + (average_percent_move * current_price) \div 100
        usual_down_spike == current_price - (average_percent_move * current_price) \div 100
        double_expected_move_up == current_price + 2 * expected_move
        double_expected_move_down == current_price - 2 * expected_move
    IN  [upper_boundary |-> Max2(double_expected_move_up, usual_up_spike),
         lower_boundary |-> Min2(double_expected_move_down, usual_down_spike)]

\* Instrument value, expected move and average percent move at finalization.
BoundaryPriceInputs == {0, 50, 100}
BoundaryMoveInputs == {-1, 0, 3, 10, 30}
BoundaryPercentInputs == {-2, 0, 4, 30}

\* A Task about to finalize, with the fields save_results reads and the
\* boundaries it hands to save_results_to_json.
InitBoundaries ==
    \E price \in BoundaryPriceInputs, move \in BoundaryMoveInputs,
       percent \in BoundaryPercentInputs :
        /\ proc = [t \in Tasks |->
                      [average_percent_move |-> percent,
                       upper_boundary |-> None, lower_boundary |-> None]
                      @@ [NewProcessor EXCEPT !.price_data = update(@, price, "LAST"),
                                              !.expected_move = move]]
        /\ app = Constructed(EarningsApp(MAX_CONCURRENT_MKT_DATA, MAX_CONCURRENT_CONTRACTS)).app
        /\ svc = Constructed(EarningsApp(MAX_CONCURRENT_MKT_DATA, MAX_CONCURRENT_CONTRACTS)).svc
        /\ log = Constructed(EarningsApp(MAX_CONCURRENT_MKT_DATA, MAX_CONCURRENT_CONTRACTS)).log
        /\ thr = [th \in Threads |-> <<>>]
        /\ main = [pc |-> "loop", i |-> 1, active_count |-> 0]
        /\ now = 0

\* check_completion: save_results()
SaveResults(t) ==
    /\ proc[t].upper_boundary = None
    /\ LET r == save_results(proc[t].price_data, proc[t].expected_move,
                             proc[t].average_percent_move)
       IN  proc' = [proc EXCEPT ![t].upper_boundary = r.upper_boundary,
                                ![t].lower_boundary = r.lower_boundary]
    /\ UNCHANGED <<app, svc, log, thr, main, now>>

NextBoundaries == \E t \in Tasks : SaveResults(t)

SpecBoundaries == InitBoundaries /\ [][NextBoundaries]_vars

\* C33: the upper boundary is the larger of price + 2 * expected_move and
\* price + price * average_percent_move / 100, the lower boundary the smaller
\* of price - 2 * expected_move and price - price * average_percent_move /
\* 100; with price, expected move and average percent move non-negative the
\* price lies between the two.
C33_BoundariesEncloseThePrice ==
    \A t \in Tasks :
        LET p == proc[t]
            price == get_instrument_value(p.price_data)
            up == 100 * p.upper_boundary
            down == 100 * p.lower_boundary
            doubleUp == 100 * (price + 2 * p.expected_move)
            usualUp == 100 * price + price * p.average_percent_move
            doubleDown == 100 * (price - 2 * p.expected_move)
            usualDown == 100 * price - price * p.average_percent_move
        IN  p.upper_boundary # None =>
            /\ up \in {doubleUp, usualUp} /\ up >= doubleUp /\ up >= usualUp
            /\ down \in {doubleDown, usualDown} /\ down <= doubleDown /\ down <= usualDown
            /\ price >= 0 /\ p.expected_move >= 0 /\ p.average_percent_move >= 0
               => p.lower_boundary <= price /\ price <= p.upper_boundary

\* C33 witness: price 50, expected move 3 and average percent move 30 give
\* the boundaries 35 (the usual down spike) and 65 (the usual up spike).
C33_UsualSpikeIsTheBoundary ==
    \E t \in Tasks :
        /\ get_instrument_value(proc[t].price_data) = 50
        /\ proc[t].expected_move = 3
        /\ proc[t].average_percent_move = 30
        /\ proc[t].lower_boundary = 35
        /\ proc[t].upper_boundary = 65

\* ---------------------------------------------------- terminal statuses ----
\* C34: a status for which is_done holds (COMPLETED, ABORTED, FAILED*,
\* TIMEOUT*, ERROR_HISTORY) is never replaced by another status.
C34_TerminalStatusIsFinal ==
    [][\A t \in Tasks :
           is_done(proc[t]) => proc'[t].status = proc[t].status]_vars

\* ------------------------------------------- completion and core phase ----
\* C35: a COMPLETED Task has an expected move, and it is half the sum of the
\* usable values of its four core legs.
C35_CompletedHasExpectedMove ==
    \A t \in Tasks :
        LET p == proc[t]
            keys == p.target_option_keys
            val(i) == get_instrument_value(p.option_price_data[keys[i]].data)
        IN  p.status = "COMPLETED" =>
            /\ p.expected_move # None
            /\ Len(keys) = 4
            /\ \A i \in 1 .. 4 : p.option_price_data[keys[i]].present /\ val(i) # None

\* --------------------------------------------- requests of a done Task ----
\* C36: a Task whose status is terminal (is_done) draws no request id and
\* submits no request.
C36_DoneTaskSubmitsNothing ==
    [][\A t \in Tasks :
           is_done(proc[t]) =>
           /\ {reqId \in Ids : log'.owner[reqId] = t} = {reqId \in Ids : log.owner[reqId] = t}
           /\ proc'[t].req_ids \subseteq proc[t].req_ids]_vars

\* ------------------------------------------------- queue and free slot ----
\* C37: in each pool, requests wait only while the active set is at the
\* pool's bound, and no id is in the active set and in the queue at once.
C37_QueueOnlyWhenPoolFull ==
    \A pool \in Pools :
        /\ QueueOf(pool) # <<>> => Cardinality(ActiveOf(pool)) = BoundOf(pool)
        /\ ActiveOf(pool) \cap QueueIds(QueueOf(pool)) = {}

\* C37 witness: the contract pool is full, its slot is held by a lookup that
\* had to wait, and another lookup waits in its queue.
C37_PromotedWhileAnotherWaits ==
    /\ Queued \cap ActiveOf("contract") # {}
    /\ QueueOf("contract") # <<>>
    /\ Cardinality(ActiveOf("contract")) = BoundOf("contract")

\* ------------------------------------------------------- lock reentry ----
\* The calls that take no lock of the gateway: the on_sent callbacks (setattr
\* of a time stamp) and the inherited EClient methods, which send a message.
LockFreeCalls == {"on_sent", "reqMktData", "reqContractDetails", "cancelMktData"}

MKT_DATA_OF_STOCK_QUOTES == 1

\* The program with a quote pool that the stock quote fills, and the
\* one-slot lookup pool in which the chain lookup waits for the end of the
\* identity lookup: the chain lookup and the core legs are queued.
InitQueued == Started(EarningsApp(MKT_DATA_OF_STOCK_QUOTES, MAX_CONCURRENT_CONTRACTS))

SpecQueued == InitQueued /\ [][Next]_vars

\* The chain lookups Task t has submitted: those forwarded to the service
\* and those waiting in contract_queue.
ChainRequests(t) ==
    ChainLookups(t)
        \cup {req.id : req \in {r \in Range(app.contract_queue) :
                                   r.on_sent = Callback("option_chain_req_time", t)}}

\* The phases of Task t in which requests have been submitted and none
\* admitted: every request of the phase is in a queue of the gateway.
QueuedPhases(t) ==
    LET p == proc[t] IN
    {ph \in {"chain", "core", "range"} :
        LET reqs == CASE ph = "chain" -> ChainRequests(t)
                      [] ph = "core"  -> p.core_option_reqs
                      [] ph = "range" -> p.range_option_reqs
        IN  /\ reqs # {}
            /\ reqs \cap Admitted = {}
            /\ CASE ph = "chain" -> ~p.option_chain_complete
                 [] ph = "core"  -> p.waiting_for_core_options
                 [] ph = "range" -> p.waiting_for_range_options}

\* C39 (amended): a phase timeout fires only after a request of the phase
\* has been admitted: while every request of the phase is queued the time
\* stamp of the phase is unset, no tick marks the chain complete, the Task
\* does not end with TIMEOUT_CORE and the range phase is not left with a leg
\* missing; of the timeouts only the overall timeout ends the Task in such
\* a state.
C39_PhaseTimeoutsCountFromAdmission ==
    [][\A t \in Tasks :
           LET p == proc[t]
               q == proc'[t]
               ph == QueuedPhases(t)
               ticked == main.pc = "loop" /\ main'.pc = "observe" /\ main.i = t
           IN  /\ "chain" \in ph => /\ p.option_chain_req_time = None
                                    /\ ticked => ~q.option_chain_complete
               /\ "core" \in ph => /\ p.core_options_req_time = None
                                   /\ q.status # "TIMEOUT_CORE"
               /\ "range" \in ph => /\ p.range_options_req_time = None
                                    /\ \/ q.waiting_for_range_options
                                       \/ PendingRange(p) = {}
               /\ ph # {} /\ ~is_done(p)
                  /\ q.status \in {"TIMEOUT_CORE", "TIMEOUT_OVERALL"}
                  => /\ q.status = "TIMEOUT_OVERALL"
                     /\ now' - p.start_time > OVERALL_TIMEOUT]_vars

\* C39 witness: a Task has ended with TIMEOUT_OVERALL while every request
\* of one of its phases was queued, more than the phase's timeout after
\* the requests were submitted.
C39_QueuedUntilOverallTimeout ==
    \E t \in Tasks :
        /\ QueuedPhases(t) # {}
        /\ proc[t].status = "TIMEOUT_OVERALL"
        /\ now - proc[t].start_time > OVERALL_TIMEOUT


\* C39 as stated: while every request of a phase is queued, only the overall
\* timeout ends the Task.
C39_OnlyTheOverallTimeoutEnds ==
    [][\A t \in Tasks :
           /\ QueuedPhases(t) # {}
           /\ ~is_done(proc[t])
           /\ is_done(proc'[t])
           => proc'[t].status = "TIMEOUT_OVERALL"]_vars


\* ------------------------------------------------- nextId, two threads ----
\* nextId and register_handler statement by statement, called by the
\* callback thread and by the tick thread for the Tasks they serve
\* (`reqId = self.app.nextId(); self.app.register_handler(reqId, self);
\* self.req_ids.add(reqId)` in start and in every req_* method).
\* Tasks that draw ids, and calls of nextId per thread.
NextIdCallers == 2
NextIdCalls == 2

NextIdThreads == {"cb", "tick"}
NextIdTasks == 1 .. NextIdCallers

\* a lock that does not keep a second thread out
LockIsFree_always(a) == TRUE

\* `with self.lock:` lets a thread in when no thread holds the lock.
LockIsFree(a) == ~a.lock

InitNextId ==
    LET c == Constructed(EarningsApp(MAX_CONCURRENT_MKT_DATA, MAX_CONCURRENT_CONTRACTS)) IN
    /\ app = c.app
    /\ proc = [t \in NextIdTasks |-> [req_ids |-> {}]]
    /\ svc = c.svc
    /\ log = [returned |-> <<>>, registered |-> {}]
    /\ thr = [th \in NextIdThreads |->
                 [pc |-> "idle", t |-> NoTask, value |-> 0, reqId |-> 0, calls |-> 0]]
    /\ main = [pc |-> "loop", i |-> 1, active_count |-> 0]
    /\ now = c.now

\* a thread enters a method of Task t that draws an id
CallNextId(th, t) ==
    /\ thr[th].pc = "idle"
    /\ thr[th].calls < NextIdCalls
    /\ thr' = [thr EXCEPT ![th].pc = "nextId", ![th].t = t]
    /\ UNCHANGED <<app, proc, svc, log, main, now>>

\* nextId: `with self.lock:`
NextIdAcquire(th) ==
    /\ thr[th].pc = "nextId"
    /\ LockIsFree(app)
    /\ app' = [app EXCEPT !.lock = TRUE]
    /\ thr' = [thr EXCEPT ![th].pc = "load"]
    /\ UNCHANGED <<proc, svc, log, main, now>>

\* nextId: `self.requestId += 1`, the read
NextIdLoad(th) ==
    /\ thr[th].pc = "load"
    /\ thr' = [thr EXCEPT ![th].pc = "store", ![th].value = app.requestId]
    /\ UNCHANGED <<app, proc, svc, log, main, now>>

\* nextId: `self.requestId += 1`, the write
NextIdStore(th) ==
    /\ thr[th].pc = "store"
    /\ app' = [app EXCEPT !.requestId = thr[th].value + 1]
    /\ thr' = [thr EXCEPT ![th].pc = "return"]
    /\ UNCHANGED <<proc, svc, log, main, now>>

\* nextId: `return self.requestId` and the end of the with-block
NextIdReturn(th) ==
    /\ thr[th].pc = "return"
    /\ app' = [app EXCEPT !.lock = FALSE]
    /\ thr' = [thr EXCEPT ![th].pc = "register", ![th].reqId = app.requestId]
    /\ log' = [log EXCEPT !.returned = Append(@, app.requestId)]
    /\ UNCHANGED <<proc, svc, main, now>>

\* register_handler(reqId, self) and `self.req_ids.add(reqId)`
RegisterHandler(th) ==
    /\ thr[th].pc = "register"
    /\ LockIsFree(app)
    /\ app' = [app EXCEPT !.request_handlers[thr[th].reqId] = thr[th].t]
    /\ proc' = [proc EXCEPT ![thr[th].t].req_ids = @ \cup {thr[th].reqId}]
    /\ log' = [log EXCEPT !.registered = @ \cup {<<thr[th].reqId, thr[th].t>>}]
    /\ thr' = [thr EXCEPT ![th].pc = "idle", ![th].calls = @ + 1]
    /\ UNCHANGED <<svc, main, now>>

NextNextId ==
    \E th \in NextIdThreads :
        \/ \E t \in NextIdTasks : CallNextId(th, t)
        \/ NextIdAcquire(th)
        \/ NextIdLoad(th)
        \/ NextIdStore(th)
        \/ NextIdReturn(th)
        \/ RegisterHandler(th)

SpecNextId == InitNextId /\ [][NextNextId]_vars

\* C40: the ids nextId returns are strictly increasing in the order of the
\* returns, whichever thread makes the call, so none is returned twice, and
\* no id is registered for two Tasks.
C40_NextIdNeverRepeats ==
    /\ \A i, j \in 1 .. Len(log.returned) :
           i < j => log.returned[i] < log.returned[j]
    /\ \A r1, r2 \in log.registered : r1[1] = r2[1] => r1[2] = r2[2]
    /\ \A t1, t2 \in NextIdTasks :
           t1 # t2 => proc[t1].req_ids \cap proc[t2].req_ids = {}

\* C40 witness: ids are registered for two Tasks, and the callback thread
\* waits for the lock in nextId while the tick thread is between the read
\* and the write of requestId.
C40_CallbackWaitsForTick ==
    /\ \E r1, r2 \in log.registered : r1[2] # r2[2]
    /\ thr["cb"].pc = "nextId"
    /\ thr["tick"].pc = "store"

=============================================================================
